---- MODULE Spec2Model ----
(***************************************************************************)
(* A model of the onit cluster lifecycle controller                        *)
(* (pkg/onit/cluster.go, pkg/onit/onos-topo.go).                           *)
(*                                                                         *)
(* One ClusterController runs one public operation at a time.  Every call  *)
(* the controller makes to the Kubernetes API, to a helper whose body is   *)
(* not part of the modelled sources, or to the log stream is one step; its *)
(* outcome is an input of the step.  The status handling that surrounds a  *)
(* call in the source (Start / Succeed / Fail, the return) belongs to the  *)
(* same step.                                                              *)
(***************************************************************************)
EXTENDS Integers, Sequences, FiniteSets, TLC

(***************************************************************************)
(* Bounds of the model.                                                    *)
(***************************************************************************)
\* Largest NumDevices of a NetworkConfig and largest stored "numdevices".
MaxDevices == 2
\* Largest number of bytes the follow log stream delivers in one run.
MaxStream == 3
\* Largest number of bytes one Read returns (the source's buffer holds 1024).
MaxRead == 2
\* Largest ReadyReplicas a deployment reports beyond the desired count.
MaxOverReady == 1
\* Largest configured TopoNodes.
MaxTopoNodes == 2
\* The polls of one readiness wait that are counted.
MaxPolls == 2

(***************************************************************************)
(* Values.                                                                 *)
(***************************************************************************)
\* The nil error.
NoErr == "nil"
\* Errors of the Kubernetes API and of the helpers.
ErrAlreadyExists == "AlreadyExists"
ErrOther == "Error"
ErrEOF == "EOF"
ErrNoSuchFile == "NoSuchFile"
ErrYaml == "YamlError"
\* No step started.
NoStep == ""

\* Image tags (onit.Debug, onit.Latest).
Debug == "debug"
Latest == "latest"
Tags == {Debug, Latest}

\* Pods of the onos-topo deployment that a pod list can show.
Pods == {"onos-topo-1", "onos-topo-2"}
\* The bytes of a log stream.
Bytes == {0, 1}
\* Names a caller passes to the Add* and Remove* operations.
Names == {"n1", "n2"}

(***************************************************************************)
(* console.StatusWriter: the status reporter the controller holds.         *)
(* step is the label of the step last started and not yet closed, err the  *)
(* error recorded by Fail, errStep the label of the step that Fail closed. *)
(***************************************************************************)
NewStatusWriter == [step |-> NoStep, err |-> NoErr, errStep |-> NoStep]

\* Start(label): begins a step.
StatusStart(s, label) == [s EXCEPT !.step = label]

\* Succeed(): marks the last started step successful.
StatusSucceed(s) == [s EXCEPT !.step = NoStep]

\* Fail(err): marks the last started step failed and records the error.
StatusFail(s, err) == [s EXCEPT !.step = NoStep, !.err = err, !.errStep = s.step]

\* The status object Succeed() returns: overall success.
SucceedResult(s) == [failed |-> FALSE, label |-> s.step, err |-> NoErr]

\* The status object Fail(err) returns: overall failure of the step last started.
FailResult(s, err) == [failed |-> TRUE, label |-> s.step, err |-> err]

\* The writer itself handed out as a console.ErrorStatus (return ..., c.status):
\* failed when an error has been recorded on it.
WriterResult(s) == [failed |-> s.err # NoErr, label |-> s.errStep, err |-> s.err]

(***************************************************************************)
(* The events of an operation, in the order they happen: the status calls  *)
(* and the calls the controller makes.  err is the error the called        *)
(* function returned, api the error of the Kubernetes request inside it.   *)
(***************************************************************************)
Ev(ev, arg, err, api) == [ev |-> ev, arg |-> arg, err |-> err, api |-> api]
EvStart(label) == Ev("Start", label, NoErr, NoErr)
EvSucceed == Ev("Succeed", "", NoErr, NoErr)
EvFail(err) == Ev("Fail", "", err, NoErr)
EvCall(name, err, api) == Ev("call", name, err, api)

(***************************************************************************)
(* State.                                                                  *)
(***************************************************************************)
VARIABLES
    config,     \* ClusterConfig: [tags: component -> tag, TopoNodes]
    objects,    \* objects that exist in the cluster's namespace
    status,     \* c.status, the controller's StatusWriter
    op,         \* the public operation running or last run
    pc,         \* the call the operation makes next; "idle", "crashed"
    step,       \* Setup: index of the step in progress
    locals,     \* arguments and local variables of the operation
    trace,      \* events of the operation so far
    ret,        \* what the operation returned
    stdout,     \* bytes written to standard output by the operation
    delivered,  \* bytes the log stream has handed to Read calls
    parked,     \* a second caller's call in flight that is not running now
    cli         \* the create-cluster command: its position, its arguments,
                \* the default cluster stored, what it printed, its exit code

vars == <<config, objects, status, op, pc, step, locals, trace, ret, stdout,
          delivered, parked, cli>>

\* What is known of one readiness wait: the polls it made (counted up to
\* MaxPolls), the ReadyReplicas its last poll read (-1 when that poll read
\* none) and the polls that met a failing query.
NoWait == [polls |-> 0, ready |-> -1, errs |-> 0]

NoLocals == [name |-> "", num |-> 0, i |-> 0, port |-> 0,
             cms |-> [err |-> NoErr, items |-> <<>>],
             unblocked |-> {}, execs |-> [p \in Pods |-> 0], running |-> {},
             topoWait |-> NoWait, proxyWait |-> NoWait,
             timeout |-> 0, timeoutArg |-> 0, jobTimeout |-> 0,
             podStatus |-> [message |-> "", code |-> 0],
             pods |-> <<>>, registry |-> "", image |-> "", tag |-> "",
             clusterID |-> "", namespace |-> "",
             count |-> 0, debugPort |-> 0, ports |-> <<>>, probes |-> <<>>,
             seen |-> {}, listed |-> <<>>,
             ownsStep |-> FALSE, interleaved |-> FALSE, misapplied |-> FALSE]

NoRet == [kind |-> "none", status |-> SucceedResult(NewStatusWriter),
          message |-> "", code |-> 0]

\* A caller that is in no call.
NoCall == [op |-> "none", pc |-> "idle", locals |-> NoLocals, trace |-> <<>>,
           ret |-> NoRet]

\* No default cluster is stored.
NoCluster == ""

\* The create-cluster command before it runs.  calls are the calls it has
\* made, printed the lines it wrote to standard output, exit its exit code
\* (-1 while the process has not exited).
NoCommand == [pc |-> "start", at |-> 0, policy |-> "", args |-> <<>>,
              clusterID |-> "", defaultCluster |-> NoCluster, calls |-> <<>>,
              printed |-> <<>>, exit |-> -1]

\* An operation returning (message, code, status) to its caller.
Returned(st, message, code) ==
    [kind |-> "returned", status |-> st, message |-> message, code |-> code]

\* A run-time panic leaving the operation: nothing is returned.
Panicked == [NoRet EXCEPT !.kind = "panic"]

Configs ==
    [tags : [{"config", "topo"} -> Tags], TopoNodes : 1..MaxTopoNodes]

Init ==
    /\ config \in Configs
    /\ objects = {}
    /\ status = NewStatusWriter
    /\ op = "none"
    /\ pc = "idle"
    /\ step = 0
    /\ locals = NoLocals
    /\ trace = <<>>
    /\ ret = NoRet
    /\ stdout = <<>>
    /\ delivered = <<>>
    /\ parked = NoCall
    /\ cli = NoCommand

\* A public operation is entered from the idle controller.
Enter(name) ==
    /\ pc = "idle"
    /\ op' = name
    /\ ret' = NoRet
    /\ stdout' = <<>>
    /\ delivered' = <<>>

(***************************************************************************)
(* Kubernetes object creation.  A create of an object that exists answers  *)
(* AlreadyExists; otherwise it creates the object, unless the request      *)
(* fails.                                                                  *)
(***************************************************************************)
CreateErr(obj, fails) ==
    IF fails THEN ErrOther
    ELSE IF obj \in objects THEN ErrAlreadyExists
    ELSE NoErr

CreatedOrRolledBack(obj, apiErr) == IF apiErr = NoErr THEN objects \cup {obj} ELSE {}

Created(obj, apiErr) == IF apiErr = NoErr THEN objects \cup {obj} ELSE objects

(***************************************************************************)
(* Setup.                                                                  *)
(***************************************************************************)
\* Setup with the GUI and CLI steps exchanged.
SetupLabelsSwapped ==
    << "Setting up RBAC",
       "Setting up Atomix controller",
       "Starting Raft partitions",
       "Adding secrets",
       "Bootstrapping onos-topo cluster",
       "Bootstrapping onos-config cluster",
       "Setting up CLI",
       "Setting up GUI",
       "Creating ingress for services" >>

\* The labels of Setup's steps, in the order Setup starts them.
SetupLabels ==
    << "Setting up RBAC",
       "Setting up Atomix controller",
       "Starting Raft partitions",
       "Adding secrets",
       "Bootstrapping onos-topo cluster",
       "Bootstrapping onos-config cluster",
       "Setting up GUI",
       "Setting up CLI",
       "Creating ingress for services" >>

\* The first call each step makes.
SetupFirstCall ==
    << "createClusterRole",
       "setupAtomixController",
       "setupPartitions",
       "createOnosSecret",
       "createOnosTopoConfigMap",
       "setupOnosConfig",
       "setupGUI",
       "setupOnosCli",
       "setupIngress" >>

\* Setup going on to the next step whatever the step in progress returned.
SetupStepReturnsUnchecked(err, ev) ==
    IF step = Len(SetupLabels)
    THEN /\ status' = StatusSucceed(status)
         /\ ret' = Returned(SucceedResult(status), "", 0)
         /\ trace' = trace \o <<ev, EvSucceed>>
         /\ pc' = "idle"
         /\ step' = step
    ELSE /\ status' = StatusStart(StatusSucceed(status), SetupLabels[step + 1])
         /\ ret' = ret
         /\ trace' = trace \o <<ev, EvSucceed, EvStart(SetupLabels[step + 1])>>
         /\ pc' = SetupFirstCall[step + 1]
         /\ step' = step + 1

\* Setup after the function of the step in progress returned err, ev being the
\* step's last call: fail and return, or succeed and start the next step, or
\* succeed and return after the last step.
SetupStepReturns(err, ev) ==
    IF err # NoErr
    THEN /\ status' = StatusFail(status, err)
         /\ ret' = Returned(FailResult(status, err), "", 0)
         /\ trace' = trace \o <<ev, EvFail(err)>>
         /\ pc' = "idle"
         /\ step' = step
    ELSE IF step = Len(SetupLabels)
    THEN /\ status' = StatusSucceed(status)
         /\ ret' = Returned(SucceedResult(status), "", 0)
         /\ trace' = trace \o <<ev, EvSucceed>>
         /\ pc' = "idle"
         /\ step' = step
    ELSE /\ status' = StatusStart(StatusSucceed(status), SetupLabels[step + 1])
         /\ ret' = ret
         /\ trace' = trace \o <<ev, EvSucceed, EvStart(SetupLabels[step + 1])>>
         /\ pc' = SetupFirstCall[step + 1]
         /\ step' = step + 1

\* setupRBAC and setupOnosTopo going on to the next call whatever the last returned.
SubStepReturnsUnchecked(err, ev, next) ==
    /\ pc' = next
    /\ trace' = Append(trace, ev)
    /\ UNCHANGED <<status, ret, step>>

\* setupRBAC and setupOnosTopo after one of their calls returned err: return
\* the error to Setup, or go on with the next call.
SubStepReturns(err, ev, next) ==
    IF err # NoErr
    THEN SetupStepReturns(err, ev)
    ELSE /\ pc' = next
         /\ trace' = Append(trace, ev)
         /\ UNCHANGED <<status, ret, step>>

\* createClusterRole's handling of the create's error: AlreadyExists is no error.
IgnoreAlreadyExists(apiErr) == IF apiErr = ErrAlreadyExists THEN NoErr ELSE apiErr

\* "return err" after a create: the create's error is returned as it is.
ReturnErr(apiErr) == apiErr

\* Setup's entry: c.status.Start("Setting up RBAC").
Setup ==
    /\ Enter("Setup")
    /\ status' = StatusStart(status, SetupLabels[1])
    /\ step' = 1
    /\ pc' = SetupFirstCall[1]
    /\ trace' = <<EvStart(SetupLabels[1])>>
    /\ locals' = NoLocals
    /\ UNCHANGED <<config, cli, parked, objects>>

\* A sub-step that creates one object: the create request, the function's
\* handling of its error (ignoresExisting: it tests IsAlreadyExists), and what
\* setupRBAC / setupOnosTopo / Setup do next.
CreateStep(call, obj, ignoresExisting, next) ==
    /\ pc = call
    /\ \E fails \in BOOLEAN :
         LET apiErr == CreateErr(obj, fails)
             err == IF ignoresExisting THEN IgnoreAlreadyExists(apiErr)
                    ELSE ReturnErr(apiErr)
         IN /\ objects' = Created(obj, apiErr)
            /\ SubStepReturns(err, EvCall(call, err, apiErr), next)
    /\ UNCHANGED <<config, cli, parked, op, locals, stdout, delivered>>

\* A step whose function is a single helper: the helper returns nil or an error.
HelperStep(call) ==
    /\ pc = call
    /\ \E err \in {NoErr, ErrOther} :
         SetupStepReturns(err, EvCall(call, err, NoErr))
    /\ UNCHANGED <<config, cli, parked, objects, op, locals, stdout, delivered>>

createClusterRole ==
    CreateStep("createClusterRole", "ClusterRole", TRUE,
               "createClusterRoleBinding")

createClusterRoleBinding ==
    CreateStep("createClusterRoleBinding", "ClusterRoleBinding", FALSE,
               "createServiceAccount")

\* The last call of setupRBAC: its error, nil included, is the step's.
createServiceAccount ==
    /\ pc = "createServiceAccount"
    /\ \E fails \in BOOLEAN :
         LET apiErr == CreateErr("ServiceAccount", fails)
             err == ReturnErr(apiErr)
         IN /\ objects' = Created("ServiceAccount", apiErr)
            /\ SetupStepReturns(err, EvCall("createServiceAccount", err, apiErr))
    /\ UNCHANGED <<config, cli, parked, op, locals, stdout, delivered>>

setupAtomixController == HelperStep("setupAtomixController")

setupPartitions == HelperStep("setupPartitions")

createOnosSecret == HelperStep("createOnosSecret")

setupOnosConfig == HelperStep("setupOnosConfig")

setupGUI == HelperStep("setupGUI")

setupOnosCli == HelperStep("setupOnosCli")

setupIngress == HelperStep("setupIngress")

(***************************************************************************)
(* setupOnosTopo.                                                          *)
(***************************************************************************)
createOnosTopoConfigMap ==
    CreateStep("createOnosTopoConfigMap", "ConfigMap/onos-topo", FALSE,
               "createOnosTopoService")

createOnosTopoService ==
    CreateStep("createOnosTopoService", "Service/onos-topo", FALSE,
               "createOnosTopoDeployment")

createOnosTopoDeployment ==
    CreateStep("createOnosTopoDeployment", "Deployment/onos-topo", FALSE,
               "createOnosTopoProxyConfigMap")

\* The proxy config map is read from a file first; a failed read returns
\* before any create.
createOnosTopoProxyConfigMap ==
    /\ pc = "createOnosTopoProxyConfigMap"
    /\ \/ /\ SubStepReturns(ErrNoSuchFile,
                            EvCall("createOnosTopoProxyConfigMap", ErrNoSuchFile, NoErr),
                            "createOnosTopoProxyDeployment")
          /\ objects' = objects
       \/ \E fails \in BOOLEAN :
            LET apiErr == CreateErr("ConfigMap/onos-topo-envoy", fails)
                err == ReturnErr(apiErr)
            IN /\ objects' = Created("ConfigMap/onos-topo-envoy", apiErr)
               /\ SubStepReturns(err, EvCall("createOnosTopoProxyConfigMap", err, apiErr),
                                 "createOnosTopoProxyDeployment")
    /\ UNCHANGED <<config, cli, parked, op, locals, stdout, delivered>>

createOnosTopoProxyDeployment ==
    CreateStep("createOnosTopoProxyDeployment", "Deployment/onos-topo-envoy", FALSE,
               "createOnosTopoProxyService")

createOnosTopoProxyService ==
    CreateStep("createOnosTopoProxyService", "Service/onos-topo-envoy", FALSE,
               "awaitOnosTopoDeploymentReady")

(***************************************************************************)
(* The readiness waits.  One step is one query of the polling loop, or its *)
(* sleep.                                                                  *)
(***************************************************************************)
\* The pod lists a poll can see: each pod at most once, with the number of
\* its container statuses and whether the first container is running.
PodEntries == [name : Pods, containers : 0..1, running : BOOLEAN]

PodLists ==
    {<<>>} \cup {<<p>> : p \in PodEntries}
           \cup {pq \in {<<p, q>> : p \in PodEntries, q \in PodEntries} :
                     pq[1].name # pq[2].name}

\* The component whose image tag decides whether the debugger is released.
DebugTagComponent == "config"

\* The first container of a listed pod is in the running state.
Running(pod) == pod.containers > 0 /\ pod.running

FirstRunningIgnoresState(pod, unblocked) ==
    pod.name \notin unblocked /\ pod.containers > 0

\* The test of the loop body: the pod is not yet in the unblocked map and its
\* first container runs.
FirstRunning(pod, unblocked) == pod.name \notin unblocked /\ Running(pod)

\* The loop over the listed pods: a pod not yet unblocked whose first
\* container runs is unblocked, after the debugger command when the debug tag
\* is set; a failing command ends the wait.  w is [unblocked, execs, running,
\* err]; running collects the pods seen with a running first container.
RECURSIVE UnblockPods(_, _, _)
UnblockPods(pods, failing, w) ==
    IF pods = <<>> \/ w.err # NoErr
    THEN w
    ELSE LET pod == Head(pods)
             first == FirstRunning(pod, w.unblocked)
             exec == first /\ config.tags[DebugTagComponent] = Debug
             w0 == IF Running(pod)
                   THEN [w EXCEPT !.running = @ \cup {pod.name}]
                   ELSE w
             w1 == IF exec
                   THEN [w0 EXCEPT !.execs[pod.name] = @ + 1]
                   ELSE w0
             w2 == IF exec /\ pod.name \in failing
                   THEN [w1 EXCEPT !.err = ErrOther]
                   ELSE IF first
                   THEN [w1 EXCEPT !.unblocked = @ \cup {pod.name}]
                   ELSE w1
         IN UnblockPods(Tail(pods), failing, w2)

DeploymentReadyAtLeast(ready, desired) == ready >= desired

\* Whether a poll that read ready replicas ends the wait of a deployment that
\* wants desired replicas.
DeploymentReady(ready, desired) == ready = desired

\* The record of a wait after one more poll that ended with err and, without
\* an error, read ready replicas.
Polled(w, err, ready) ==
    [polls |-> IF w.polls < MaxPolls THEN w.polls + 1 ELSE w.polls,
     ready |-> IF err # NoErr THEN -1 ELSE ready,
     errs  |-> IF err # NoErr /\ w.errs < MaxPolls THEN w.errs + 1 ELSE w.errs]

PollEndsIgnoresErrors(w, desired) == DeploymentReady(w.ready, desired)

PollEndsTimesOut(w, desired) ==
    w.errs > 0 \/ DeploymentReady(w.ready, desired) \/ w.polls >= MaxPolls

\* Whether the poll just made ends the wait: a query failed, or the
\* deployment is ready.  Nothing else ends it; otherwise the loop sleeps and
\* polls again.
PollEnds(w, desired) == w.errs > 0 \/ DeploymentReady(w.ready, desired)

\* The calls of one iteration of awaitOnosTopoDeploymentReady, by the place
\* the wait is at: about to list the pods, to look at the next listed pod, to
\* get the deployment, to sleep.
TopoWaitCalls ==
    {"awaitOnosTopoDeploymentReady", "unblockOnosTopoPods", "getOnosTopoDeployment",
     "sleepOnosTopo"}

\* awaitOnosTopoDeploymentReady after a query of its poll: the poll has ended
\* and ends the wait, which returns err to setupOnosTopo, or the wait goes on
\* at next.
TopoWaitGoesOn(polled, err, next) ==
    IF PollEnds(polled, config.TopoNodes)
    THEN SubStepReturns(err, EvCall("awaitOnosTopoDeploymentReady", err, err),
                        "awaitOnosTopoProxyDeploymentReady")
    ELSE /\ pc' = next
         /\ UNCHANGED <<trace, status, ret, step>>

\* The start of an iteration of awaitOnosTopoDeploymentReady: the pods are
\* listed; a failing list ends the wait.
awaitOnosTopoDeploymentReady ==
    /\ pc = "awaitOnosTopoDeploymentReady"
    /\ \E listFails \in BOOLEAN :
         IF listFails
         THEN LET polled == Polled(locals.topoWait, ErrOther, 0)
              IN /\ locals' = [locals EXCEPT !.topoWait = polled]
                 /\ TopoWaitGoesOn(polled, ErrOther, "sleepOnosTopo")
         ELSE \E pods \in PodLists :
                /\ locals' = [locals EXCEPT !.listed = pods]
                /\ pc' = IF pods = <<>> THEN "getOnosTopoDeployment"
                         ELSE "unblockOnosTopoPods"
                /\ UNCHANGED <<trace, status, ret, step>>
    /\ UNCHANGED <<config, cli, parked, objects, op, stdout, delivered>>

\* The loop over the listed pods looks at the next pod, and sends it the
\* debugger command when it is to be unblocked and the debug tag is set; a
\* failing command ends the wait.
unblockOnosTopoPods ==
    /\ pc = "unblockOnosTopoPods"
    /\ \E failing \in SUBSET {Head(locals.listed).name} :
         LET w0 == [unblocked |-> locals.unblocked, execs |-> locals.execs,
                    running |-> locals.running, err |-> NoErr]
             w == UnblockPods(<<Head(locals.listed)>>, failing, w0)
             rest == Tail(locals.listed)
             l == [locals EXCEPT !.unblocked = w.unblocked, !.execs = w.execs,
                                 !.running = w.running, !.listed = rest]
         IN IF w.err # NoErr
            THEN LET polled == Polled(locals.topoWait, w.err, 0)
                 IN /\ locals' = [l EXCEPT !.topoWait = polled]
                    /\ TopoWaitGoesOn(polled, w.err, "sleepOnosTopo")
            ELSE /\ locals' = l
                 /\ pc' = IF rest = <<>> THEN "getOnosTopoDeployment"
                          ELSE "unblockOnosTopoPods"
                 /\ UNCHANGED <<trace, status, ret, step>>
    /\ UNCHANGED <<config, cli, parked, objects, op, stdout, delivered>>

\* The deployment is got: the wait returns when the get fails or the
\* deployment is ready, else it sleeps.
getOnosTopoDeployment ==
    /\ pc = "getOnosTopoDeployment"
    /\ \E getFails \in BOOLEAN, ready \in 0..(config.TopoNodes + MaxOverReady) :
         LET err == IF getFails THEN ErrOther ELSE NoErr
             polled == Polled(locals.topoWait, err, ready)
         IN /\ locals' = [locals EXCEPT !.topoWait = polled]
            /\ TopoWaitGoesOn(polled, err, "sleepOnosTopo")
    /\ UNCHANGED <<config, cli, parked, objects, op, stdout, delivered>>

\* time.Sleep(100 * time.Millisecond), then the next iteration.
sleepOnosTopo ==
    /\ pc = "sleepOnosTopo"
    /\ pc' = "awaitOnosTopoDeploymentReady"
    /\ UNCHANGED <<config, cli, parked, objects, status, op, step, locals, trace, ret,
                   stdout, delivered>>

\* The ready replicas the proxy deployment is waited to report.
ProxyNodes == 1

\* The get of an iteration of awaitOnosTopoProxyDeploymentReady, the last call
\* of setupOnosTopo: the proxy deployment wants one replica; the wait returns
\* when the get fails or the deployment is ready, else it sleeps.
awaitOnosTopoProxyDeploymentReady ==
    /\ pc = "awaitOnosTopoProxyDeploymentReady"
    /\ \E getFails \in BOOLEAN, ready \in 0..(ProxyNodes + MaxOverReady) :
         LET err == IF getFails THEN ErrOther ELSE NoErr
             polled == Polled(locals.proxyWait, err, ready)
         IN /\ locals' = [locals EXCEPT !.proxyWait = polled]
            /\ IF PollEnds(polled, ProxyNodes)
               THEN SetupStepReturns(err, EvCall("awaitOnosTopoProxyDeploymentReady", err, err))
               ELSE /\ pc' = "sleepOnosTopoProxy"
                    /\ UNCHANGED <<trace, status, ret, step>>
    /\ UNCHANGED <<config, cli, parked, objects, op, stdout, delivered>>

\* time.Sleep(100 * time.Millisecond), then the next iteration.
sleepOnosTopoProxy ==
    /\ pc = "sleepOnosTopoProxy"
    /\ pc' = "awaitOnosTopoProxyDeploymentReady"
    /\ UNCHANGED <<config, cli, parked, objects, status, op, step, locals, trace, ret,
                   stdout, delivered>>

NextSetup ==
    \/ Setup
    \/ createClusterRole
    \/ createClusterRoleBinding
    \/ createServiceAccount
    \/ setupAtomixController
    \/ setupPartitions
    \/ createOnosSecret
    \/ createOnosTopoConfigMap
    \/ createOnosTopoService
    \/ createOnosTopoDeployment
    \/ createOnosTopoProxyConfigMap
    \/ createOnosTopoProxyDeployment
    \/ createOnosTopoProxyService
    \/ awaitOnosTopoDeploymentReady
    \/ unblockOnosTopoPods
    \/ getOnosTopoDeployment
    \/ sleepOnosTopo
    \/ awaitOnosTopoProxyDeploymentReady
    \/ sleepOnosTopoProxy
    \/ setupOnosConfig
    \/ setupGUI
    \/ setupOnosCli
    \/ setupIngress

SpecSetup == Init /\ [][NextSetup]_vars

(***************************************************************************)
(* The topology commands.                                                  *)
(***************************************************************************)
Digits == <<"0", "1", "2", "3", "4", "5", "6", "7", "8", "9">>

\* strconv.Itoa, and fmt's %d.
RECURSIVE Itoa(_)
Itoa(n) ==
    IF n < 0 THEN "-" \o Itoa(-n)
    ELSE IF n < 10 THEN Digits[n + 1]
    ELSE Itoa(n \div 10) \o Digits[(n % 10) + 1]

DeviceNameFromOne(name, i) == name \o "-s" \o Itoa(i + 1)

\* The name of device i of a network: name, "-s", Itoa(i).
DeviceName(name, i) == name \o "-s" \o Itoa(i)

\* The command addDevice executes.
AddDeviceCommand(deviceType, name, port) ==
    "onos topo add device " \o name \o " --type " \o deviceType \o " --address "
        \o name \o ":" \o Itoa(port) \o " --version 1.0.0 --plain --timeout 15s"

\* The command removeDevice executes.
RemoveDeviceCommand(name) == "onos topo remove device " \o name

\* The port of a simulator, and the port of a network's first device.
SimulatorPort == 11161
NetworkBasePort == 50001

DeviceLoopGoesOn(err) == FALSE

\* "if err := c.addDevice(...); err != nil { return err }", and the same
\* for removeDevice: the device loops return their first error.
DeviceLoopReturns(err) == err # NoErr

\* An operation other than Setup returns c.status.Fail(err) after event ev.
OpFails(err, ev) ==
    /\ status' = StatusFail(status, err)
    /\ ret' = Returned(FailResult(status, err), "", 0)
    /\ trace' = trace \o <<ev, EvFail(err)>>
    /\ pc' = "idle"

\* An operation other than Setup returns c.status.Succeed() after events evs.
OpSucceeds(evs) ==
    /\ status' = StatusSucceed(status)
    /\ ret' = Returned(SucceedResult(status), "", 0)
    /\ trace' = trace \o evs \o <<EvSucceed>>
    /\ pc' = "idle"

OperationStartsNoStep == FALSE

\* The first statement of every operation is c.status.Start(label).
OperationStartsStep == TRUE

\* The call issues Succeed or Fail: it is applied to the step last started
\* on the shared writer, which is this call's own or not.
Closes(l) == [l EXCEPT !.misapplied = @ \/ ~l.ownsStep]

\* The call issues Start: the step last started is now its own.
Starts(l) == [l EXCEPT !.ownsStep = TRUE]

\* An operation's entry: c.status.Start(label), then the call named first.
\* interleaved tells that another call of the controller is in flight.
Begin(name, label, first, args) ==
    /\ Enter(name)
    /\ status' = IF OperationStartsStep THEN StatusStart(status, label) ELSE status
    /\ pc' = first
    /\ trace' = <<EvStart(label)>>
    /\ locals' = [args EXCEPT !.ownsStep = OperationStartsStep,
                              !.interleaved = parked.pc # "idle"]
    /\ UNCHANGED <<config, cli, parked, objects, step>>

\* The first of an operation's two steps returned err after event ev: on an
\* error the operation calls c.status.Fail(err) and, when returns is set,
\* returns its result; otherwise it starts the second step.
FirstStepDone(err, ev, returns, nextLabel, next) ==
    IF err # NoErr /\ returns
    THEN OpFails(err, ev)
    ELSE /\ status' = StatusStart(IF err # NoErr THEN StatusFail(status, err)
                                  ELSE status,
                                  nextLabel)
         /\ trace' = trace \o <<ev>>
                      \o (IF err # NoErr THEN <<EvFail(err)>> ELSE <<>>)
                      \o <<EvStart(nextLabel)>>
         /\ pc' = next
         /\ ret' = ret

(***************************************************************************)
(* AddSimulator, AddApp, AddNetwork.                                       *)
(***************************************************************************)
\* AddSimulator and AddNetwork going on after a failed provision step, as
\* the Remove* operations do after a failed teardown.
AddContinuesOnProvisionFailure == FALSE

\* AddSimulator and AddNetwork return c.status.Fail(err) when the provision
\* step fails.
AddReturnsOnProvisionFailure == TRUE

AddSimulator ==
    \E name \in Names :
      Begin("AddSimulator", "Setting up simulator", "setupSimulator",
            [NoLocals EXCEPT !.name = name])

setupSimulator ==
    /\ pc = "setupSimulator"
    /\ \E err \in {NoErr, ErrOther} :
         FirstStepDone(err, EvCall("setupSimulator", err, NoErr),
                       AddReturnsOnProvisionFailure,
                       "Adding simulator to topo", "addSimulatorToTopo")
    /\ UNCHANGED <<config, cli, parked, objects, op, step, locals, stdout, delivered>>

addSimulatorToTopo ==
    /\ pc = "addSimulatorToTopo"
    /\ \E err \in {NoErr, ErrOther} :
         LET ev == Ev("addDevice",
                      AddDeviceCommand("Devicesim", locals.name, SimulatorPort),
                      err, NoErr)
         IN IF err # NoErr THEN OpFails(err, ev) ELSE OpSucceeds(<<ev>>)
    /\ UNCHANGED <<config, cli, parked, objects, op, step, locals, stdout, delivered>>

AddApp ==
    \E name \in Names :
      Begin("AddApp", "Setting up app", "setupApp", [NoLocals EXCEPT !.name = name])

setupApp ==
    /\ pc = "setupApp"
    /\ \E err \in {NoErr, ErrOther} :
         LET ev == EvCall("setupApp", err, NoErr)
         IN IF err # NoErr THEN OpFails(err, ev) ELSE OpSucceeds(<<ev>>)
    /\ UNCHANGED <<config, cli, parked, objects, op, step, locals, stdout, delivered>>

AddNetwork ==
    \E name \in Names, numDevices \in 0..MaxDevices :
      Begin("AddNetwork", "Setting up network", "setupNetwork",
            [NoLocals EXCEPT !.name = name, !.num = numDevices])

\* setupNetwork, then the entry of addNetworkToTopo: var port = 50001; i := 0.
setupNetwork ==
    /\ pc = "setupNetwork"
    /\ \E err \in {NoErr, ErrOther} :
         FirstStepDone(err, EvCall("setupNetwork", err, NoErr),
                       AddReturnsOnProvisionFailure,
                       "Adding network to topo", "addNetworkToTopo")
    /\ locals' = IF pc' = "addNetworkToTopo"
                 THEN Starts([locals EXCEPT !.port = NetworkBasePort, !.i = 0])
                 ELSE Closes(locals)
    /\ UNCHANGED <<config, cli, parked, objects, op, step, stdout, delivered>>

\* The loop of addNetworkToTopo: one addDevice per iteration, the first error
\* returned; after the last device addNetworkToTopo returns nil.
addNetworkToTopo ==
    /\ pc = "addNetworkToTopo"
    /\ \/ /\ locals.i < locals.num
          /\ \E err \in {NoErr, ErrOther} :
               LET ev == Ev("addDevice",
                            AddDeviceCommand("Stratum",
                                             DeviceName(locals.name, locals.i),
                                             locals.port),
                            err, NoErr)
               IN IF DeviceLoopReturns(err)
                  THEN /\ OpFails(err, ev)
                       /\ locals' = Closes(locals)
                  ELSE /\ trace' = Append(trace, ev)
                       /\ locals' = [locals EXCEPT !.port = @ + 1, !.i = @ + 1]
                       /\ UNCHANGED <<status, ret, pc>>
       \/ /\ locals.i >= locals.num
          /\ OpSucceeds(<<>>)
          /\ locals' = Closes(locals)
    /\ UNCHANGED <<config, cli, parked, objects, op, step, stdout, delivered>>

(***************************************************************************)
(* RemoveSimulator, RemoveNetwork, RemoveApp.                              *)
(***************************************************************************)
\* The Remove* operations returning c.status.Fail(err) of a failed teardown.
RemoveStopsOnTeardownFailure == TRUE

\* The Remove* operations call c.status.Fail(err) when the teardown step
\* fails, and go on.
RemoveReturnsOnTeardownFailure == FALSE

RemoveSimulator ==
    \E name \in Names :
      Begin("RemoveSimulator", "Tearing down simulator", "teardownSimulator",
            [NoLocals EXCEPT !.name = name])

teardownSimulator ==
    /\ pc = "teardownSimulator"
    /\ \E err \in {NoErr, ErrOther} :
         FirstStepDone(err, EvCall("teardownSimulator", err, NoErr),
                       RemoveReturnsOnTeardownFailure,
                       "Reconfiguring topology", "removeSimulatorFromConfig")
    /\ UNCHANGED <<config, cli, parked, objects, op, step, locals, stdout, delivered>>

removeSimulatorFromConfig ==
    /\ pc = "removeSimulatorFromConfig"
    /\ \E err \in {NoErr, ErrOther} :
         LET ev == Ev("removeDevice", RemoveDeviceCommand(locals.name), err, NoErr)
         IN IF err # NoErr THEN OpFails(err, ev) ELSE OpSucceeds(<<ev>>)
    /\ UNCHANGED <<config, cli, parked, objects, op, step, locals, stdout, delivered>>

RemoveApp ==
    \E name \in Names :
      Begin("RemoveApp", "Tearing down app", "teardownApp",
            [NoLocals EXCEPT !.name = name])

\* RemoveApp has no second step: after the teardown, failed or not, it
\* returns c.status.Succeed().
teardownApp ==
    /\ pc = "teardownApp"
    /\ \E err \in {NoErr, ErrOther} :
         LET ev == EvCall("teardownApp", err, NoErr)
         IN IF err # NoErr /\ RemoveReturnsOnTeardownFailure
            THEN OpFails(err, ev)
            ELSE LET s1 == IF err # NoErr THEN StatusFail(status, err) ELSE status
                 IN /\ status' = StatusSucceed(s1)
                    /\ ret' = Returned(SucceedResult(s1), "", 0)
                    /\ trace' = trace \o <<ev>>
                                 \o (IF err # NoErr THEN <<EvFail(err)>> ELSE <<>>)
                                 \o <<EvSucceed>>
                    /\ pc' = "idle"
    /\ UNCHANGED <<config, cli, parked, objects, op, step, locals, stdout, delivered>>

(***************************************************************************)
(* RemoveNetwork.                                                          *)
(***************************************************************************)
\* The value stored under "numdevices" in a configuration document: none, a
\* string, or an integer.
NumDevicesValues ==
    {[type |-> "none", val |-> 0], [type |-> "string", val |-> 0]}
        \cup {[type |-> "int", val |-> n] : n \in 0..MaxDevices}

\* The "config" entry of a config map's BinaryData: absent, bytes that are
\* not a YAML mapping, or a mapping.
ConfigEntries ==
    {[kind |-> "absent", numdevices |-> [type |-> "none", val |-> 0]],
     [kind |-> "invalid", numdevices |-> [type |-> "none", val |-> 0]]}
        \cup {[kind |-> "mapping", numdevices |-> v] : v \in NumDevicesValues}

\* What ConfigMaps(...).List returns: an error with no items, or the items
\* that carry the label (the first one is all RemoveNetwork reads).
ConfigMapLists ==
    {[err |-> ErrOther, items |-> <<>>], [err |-> NoErr, items |-> <<>>]}
        \cup {[err |-> NoErr, items |-> <<e>>] : e \in ConfigEntries}

\* yaml.Unmarshal into a map: no bytes leave the map empty, bytes that are no
\* mapping are an error.  The result is [err, numdevices].
YamlUnmarshal(entry) ==
    IF entry.kind = "invalid"
    THEN [err |-> ErrYaml, numdevices |-> [type |-> "none", val |-> 0]]
    ELSE IF entry.kind = "absent"
    THEN [err |-> NoErr, numdevices |-> [type |-> "none", val |-> 0]]
    ELSE [err |-> NoErr, numdevices |-> entry.numdevices]

\* Whether configMap.Items[0] is in range.
HasFirstItem(cms) == Len(cms.items) > 0

\* Whether the type assertion m["numdevices"].(int) holds.
IsInt(v) == v.type = "int"

\* A run-time panic: the operation ends without returning.
Panics(what) ==
    /\ pc' = "crashed"
    /\ ret' = Panicked
    /\ trace' = Append(trace, Ev("panic", what, NoErr, NoErr))
    /\ status' = status

RemoveNetwork ==
    \E name \in Names :
      Begin("RemoveNetwork", "Tearing down network", "listConfigMaps",
            [NoLocals EXCEPT !.name = name])

\* The list of the network's config maps; its error is dropped.
listConfigMaps ==
    /\ pc = "listConfigMaps"
    /\ \E cms \in ConfigMapLists :
         /\ locals' = [locals EXCEPT !.cms = cms]
         /\ trace' = Append(trace, EvCall("ConfigMaps.List", NoErr, cms.err))
    /\ pc' = "teardownNetwork"
    /\ UNCHANGED <<config, cli, parked, objects, status, op, step, ret, stdout, delivered>>

teardownNetwork ==
    /\ pc = "teardownNetwork"
    /\ \E err \in {NoErr, ErrOther} :
         FirstStepDone(err, EvCall("teardownNetwork", err, NoErr),
                       RemoveReturnsOnTeardownFailure,
                       "Reconfiguring topology", "removeNetworkFromConfig")
    /\ UNCHANGED <<config, cli, parked, objects, op, step, locals, stdout, delivered>>

\* The entry of removeNetworkFromConfig, up to the loop: the first item's
\* "config" entry is parsed and its "numdevices" asserted to be an int.
removeNetworkFromConfig ==
    /\ pc = "removeNetworkFromConfig"
    /\ IF ~HasFirstItem(locals.cms)
       THEN Panics("index out of range") /\ locals' = locals
       ELSE LET m == YamlUnmarshal(locals.cms.items[1])
            IN IF m.err # NoErr
               THEN /\ OpFails(m.err, EvCall("removeNetworkFromConfig", m.err, NoErr))
                    /\ locals' = locals
               ELSE IF ~IsInt(m.numdevices)
               THEN Panics("interface conversion") /\ locals' = locals
               ELSE /\ locals' = [locals EXCEPT !.num = m.numdevices.val, !.i = 0]
                    /\ pc' = "removeNetworkDevices"
                    /\ UNCHANGED <<status, ret, trace>>
    /\ UNCHANGED <<config, cli, parked, objects, op, step, stdout, delivered>>

\* The loop of removeNetworkFromConfig: one removeDevice per iteration, the
\* first error returned; after the last device it returns nil.
removeNetworkDevices ==
    /\ pc = "removeNetworkDevices"
    /\ \/ /\ locals.i < locals.num
          /\ \E err \in {NoErr, ErrOther} :
               LET ev == Ev("removeDevice",
                            RemoveDeviceCommand(DeviceName(locals.name, locals.i)),
                            err, NoErr)
               IN IF DeviceLoopReturns(err)
                  THEN /\ OpFails(err, ev)
                       /\ locals' = locals
                  ELSE /\ trace' = Append(trace, ev)
                       /\ locals' = [locals EXCEPT !.i = @ + 1]
                       /\ UNCHANGED <<status, ret, pc>>
       \/ /\ locals.i >= locals.num
          /\ OpSucceeds(<<>>)
          /\ locals' = locals
    /\ UNCHANGED <<config, cli, parked, objects, op, step, stdout, delivered>>

\* DownloadLogs's entry: c.status.Start("Downloading logs").
DownloadLogs ==
    \E name \in Names :
      Begin("DownloadLogs", "Downloading logs", "getLogsPod",
            [NoLocals EXCEPT !.name = name])

\* DownloadLogs gets the pod: a failing get fails the step.
getLogsPod ==
    /\ pc = "getLogsPod"
    /\ \E err \in {NoErr, ErrOther} :
         LET ev == EvCall("Pods.Get", err, err)
         IN IF err # NoErr THEN OpFails(err, ev)
            ELSE /\ pc' = "downloadLogs"
                 /\ trace' = Append(trace, ev)
                 /\ UNCHANGED <<status, ret>>
    /\ UNCHANGED <<config, cli, parked, objects, op, step, locals, stdout, delivered>>

\* A call of downloadLogs returned err after event ev: downloadLogs returns
\* an error at once, which DownloadLogs hands to c.status.Fail; without an
\* error it goes on at next.
DownloadGoesOn(err, ev, next) ==
    IF err # NoErr THEN OpFails(err, ev)
    ELSE /\ pc' = next
         /\ trace' = Append(trace, ev)
         /\ UNCHANGED <<status, ret>>

\* downloadLogs creates the file at path.
downloadLogs ==
    /\ pc = "downloadLogs"
    /\ \E err \in {NoErr, ErrOther} :
         DownloadGoesOn(err, EvCall("os.Create", err, err), "streamLogsToFile")
    /\ UNCHANGED <<config, cli, parked, objects, op, step, locals, stdout, delivered>>

\* downloadLogs opens the stream of the pod's logs.
streamLogsToFile ==
    /\ pc = "streamLogsToFile"
    /\ \E err \in {NoErr, ErrOther} :
         DownloadGoesOn(err, EvCall("GetLogs.Stream", err, err), "copyLogsToFile")
    /\ UNCHANGED <<config, cli, parked, objects, op, step, locals, stdout, delivered>>

\* downloadLogs copies the stream to the file and returns io.Copy's error;
\* DownloadLogs fails the step with it, or succeeds.
copyLogsToFile ==
    /\ pc = "copyLogsToFile"
    /\ \E err \in {NoErr, ErrOther} :
         LET ev == EvCall("io.Copy", err, err)
         IN IF err # NoErr THEN OpFails(err, ev) ELSE OpSucceeds(<<ev>>)
    /\ UNCHANGED <<config, cli, parked, objects, op, step, locals, stdout, delivered>>

NextLifecycle ==
    \/ AddSimulator
    \/ setupSimulator
    \/ addSimulatorToTopo
    \/ AddApp
    \/ setupApp
    \/ AddNetwork
    \/ setupNetwork
    \/ addNetworkToTopo
    \/ RemoveSimulator
    \/ teardownSimulator
    \/ removeSimulatorFromConfig
    \/ RemoveApp
    \/ teardownApp
    \/ RemoveNetwork
    \/ listConfigMaps
    \/ teardownNetwork
    \/ removeNetworkFromConfig
    \/ removeNetworkDevices
    \/ DownloadLogs
    \/ getLogsPod
    \/ downloadLogs
    \/ streamLogsToFile
    \/ copyLogsToFile

SpecLifecycle == Init /\ [][NextLifecycle]_vars

(***************************************************************************)
(* Two callers in AddNetwork on one controller at the same time.  The       *)
(* controller has no lock; each call has its own arguments and locals, and  *)
(* the two share the controller's fields.  One call runs at a time and the  *)
(* scheduler may switch between any two of their steps.                     *)
(***************************************************************************)
\* The call that runs now.
ThisCall == [op |-> op, pc |-> pc, locals |-> locals, trace |-> trace, ret |-> ret]

ResumedLocalsSharePort(call, from) == [call.locals EXCEPT !.port = from.port]

\* The locals a call finds when it runs again after the call that ran
\* meanwhile stopped with the locals from: its own, the port counter of
\* addNetworkToTopo among them.
ResumedLocals(call, from) == call.locals

\* A call that leaves the processor: in flight, it is interleaved with
\* whatever the other caller does meanwhile.
Suspended(call) ==
    [call EXCEPT !.locals.interleaved = @ \/ call.pc # "idle"]

\* A call that runs again: the step last started on the writer is still its
\* own unless the call that ran meanwhile started one.
Resumed(l, from) == [l EXCEPT !.ownsStep = @ /\ ~from.ownsStep]

\* The scheduler runs the other caller.
Switch ==
    /\ parked' = Suspended(ThisCall)
    /\ op' = parked.op
    /\ pc' = parked.pc
    /\ locals' = Resumed(ResumedLocals(parked, locals), locals)
    /\ trace' = parked.trace
    /\ ret' = parked.ret
    /\ UNCHANGED <<config, cli, objects, status, step, stdout, delivered>>

NextOverlap ==
    \/ AddNetwork
    \/ setupNetwork
    \/ addNetworkToTopo
    \/ Switch

\* One configuration is enough here: AddNetwork reads none of it.
InitOverlap == Init /\ config.TopoNodes = 1 /\ \A c \in DOMAIN config.tags : config.tags[c] = Debug

SpecOverlap == InitOverlap /\ [][NextOverlap]_vars

(***************************************************************************)
(* RunTests.  Durations are in seconds.                                    *)
(***************************************************************************)
\* 10 * time.Minute.
TenMinutes == 600

\* The timeouts a caller passes.
Timeouts == {0, 30, TenMinutes, 900}

\* The completion messages and exit codes getStatus can produce.
Messages == {"", "Completed"}
ExitCodes == 0..2

DefaultTimeoutAlways(timeout) == TenMinutes

\* "Default the test timeout to 10 minutes".
DefaultTimeout(timeout) == IF timeout = 0 THEN TenMinutes ELSE timeout

\* What one Read hands back: n bytes and an error (nil, io.EOF or another).
Chunks(n) == [1..n -> Bytes]

\* The bytes of a Read that RunTests prints: none when the Read also
\* returned an error, buf[:n] otherwise.
Printed(chunk, err) == IF err # NoErr THEN <<>> ELSE chunk

\* RunTests's entry: the timeout default and c.status.Start.  timeoutArg
\* keeps the caller's argument, timeout is the variable after the default.
RunTests ==
    \E timeout \in Timeouts :
      Begin("RunTests", "Starting test job: t1", "startTests",
            [NoLocals EXCEPT !.timeoutArg = timeout,
                             !.timeout = DefaultTimeout(timeout)])

\* startTests creates the job with the timeout it is handed (jobTimeout):
\* on an error RunTests returns ("", 0, c.status.Fail(err)), else it calls
\* c.status.Succeed().
startTests ==
    /\ pc = "startTests"
    /\ locals' = [locals EXCEPT !.jobTimeout = locals.timeout]
    /\ \E err \in {NoErr, ErrOther} :
         LET ev == EvCall("startTests", err, NoErr)
         IN IF err # NoErr
            THEN OpFails(err, ev)
            ELSE /\ status' = StatusSucceed(status)
                 /\ trace' = trace \o <<ev, EvSucceed>>
                 /\ pc' = "streamLogs"
                 /\ ret' = ret
    /\ UNCHANGED <<config, cli, parked, objects, op, step, stdout, delivered>>

\* streamLogs opens the follow stream: on an error RunTests returns
\* ("", 0, c.status).
streamLogs ==
    /\ pc = "streamLogs"
    /\ \E err \in {NoErr, ErrOther} :
         /\ trace' = Append(trace, EvCall("streamLogs", err, err))
         /\ IF err # NoErr
            THEN /\ ret' = Returned(WriterResult(status), "", 0)
                 /\ pc' = "idle"
            ELSE /\ ret' = ret
                 /\ pc' = "Read"
    /\ UNCHANGED <<config, cli, parked, objects, status, op, step, locals, stdout, delivered>>

\* One iteration of the copy loop: a Read, then break on io.EOF, return on
\* another error, print buf[:n] otherwise.
Read ==
    /\ pc = "Read"
    /\ \E n \in 0..MaxRead, err \in {NoErr, ErrEOF, ErrOther} :
         /\ Len(delivered) + n <= MaxStream
         /\ \E chunk \in Chunks(n) :
              /\ delivered' = delivered \o chunk
              /\ stdout' = stdout \o Printed(chunk, err)
         /\ IF err = NoErr
            THEN UNCHANGED <<pc, ret, trace>>
            ELSE IF err = ErrEOF
            THEN /\ pc' = "getStatus"
                 /\ trace' = Append(trace, EvCall("Read", err, err))
                 /\ ret' = ret
            ELSE /\ pc' = "idle"
                 /\ trace' = Append(trace, EvCall("Read", err, err))
                 /\ ret' = Returned(WriterResult(status), "", 0)
    /\ UNCHANGED <<config, cli, parked, objects, status, op, step, locals>>

\* What getStatus hands back beside its error: the pod's message and exit
\* code, or the zero values with an error.
PodStatuses(err) ==
    IF err # NoErr THEN {[message |-> "", code |-> 0]}
    ELSE [message : Messages, code : ExitCodes]

ExitResultFixedCode(err, pod) ==
    IF err # NoErr
    THEN [message |-> "failed to retrieve exit code", code |-> 1]
    ELSE [message |-> pod.message, code |-> 0]

ExitResultKeepsPod(err, pod) == pod

\* The (message, code) RunTests returns after getStatus: the fixed failure
\* pair on an error, getStatus's own pair otherwise.
ExitResult(err, pod) ==
    IF err # NoErr
    THEN [message |-> "failed to retrieve exit code", code |-> 1]
    ELSE pod

\* getStatus reads the pod's terminal status; podStatus keeps what the
\* query produced.
getStatus ==
    /\ pc = "getStatus"
    /\ \E err \in {NoErr, ErrOther} :
         \E pod \in PodStatuses(err) :
           LET result == ExitResult(err, pod)
           IN /\ trace' = Append(trace, EvCall("getStatus", err, err))
              /\ locals' = [locals EXCEPT !.podStatus = pod]
              /\ ret' = Returned(WriterResult(status), result.message, result.code)
    /\ pc' = "idle"
    /\ UNCHANGED <<config, cli, parked, objects, status, op, step, stdout, delivered>>

NextRunTests ==
    \/ RunTests
    \/ startTests
    \/ streamLogs
    \/ Read
    \/ getStatus

SpecRunTests == Init /\ [][NextRunTests]_vars

(***************************************************************************)
(* GetResources.                                                           *)
(***************************************************************************)
\* The pods of the cluster's namespace, in the order a list returns them:
\* each has a name and the value of its "resource" label ("" without one).
MaxPods == 2
PodNames == {"r1", "p1", "p2"}
ResourceLabels == {"", "r1"}
ResourceNames == {"r1", "p1"}

ClusterPod == [name : PodNames, resource : ResourceLabels]

ClusterPods ==
    {ps \in UNION {[1..n -> ClusterPod] : n \in 0..MaxPods} :
        \A a, b \in 1..Len(ps) : a # b => ps[a].name # ps[b].name}

ErrNotFound == "NotFound"

\* The error of "unknown test resource " + name.
ErrUnknownResource(name) == "unknown test resource " \o name

\* Pods(...).Get(name): the error it answers when the request itself went
\* through.
GetPod(pods, name) ==
    IF \E j \in 1..Len(pods) : pods[j].name = name THEN NoErr ELSE ErrNotFound

\* Pods(...).List with the selector "resource=" + name: the pods that carry
\* the label, in list order.
RECURSIVE ListPods(_, _)
ListPods(pods, name) ==
    IF pods = <<>> THEN <<>>
    ELSE (IF Head(pods).resource = name THEN <<Head(pods)>> ELSE <<>>)
           \o ListPods(Tail(pods), name)

\* The loop resources[i] = pod.Name.
RECURSIVE PodNamesOf(_)
PodNamesOf(items) ==
    IF items = <<>> THEN <<>> ELSE <<Head(items).name>> \o PodNamesOf(Tail(items))

\* What GetResources returns: the resource IDs and the error.
ResourcesReturned(resources, err) ==
    [kind |-> "returned", status |-> SucceedResult(NewStatusWriter),
     message |-> "", code |-> 0, resources |-> resources, err |-> err]

FallsBackOnAnyError(err) == err # NoErr

\* The get's error sends GetResources on to the label selector.
FallsBackToLabel(err) == err = ErrNotFound

\* GetResources up to the get of the pod named name.
GetResources ==
    /\ pc = "idle"
    /\ op' = "GetResources"
    /\ \E name \in ResourceNames, pods \in ClusterPods, requestFails \in BOOLEAN :
         LET err == IF requestFails THEN ErrOther ELSE GetPod(pods, name)
         IN /\ locals' = [NoLocals EXCEPT !.name = name, !.pods = pods]
            /\ trace' = <<EvCall("Pods.Get", err, err)>>
            /\ IF err = NoErr
               THEN /\ ret' = ResourcesReturned(<<name>>, NoErr)
                    /\ pc' = "idle"
               ELSE IF ~FallsBackToLabel(err)
               THEN /\ ret' = ResourcesReturned(<<>>, err)
                    /\ pc' = "idle"
               ELSE /\ ret' = NoRet
                    /\ pc' = "listResourcePods"
    /\ UNCHANGED <<config, cli, parked, objects, status, step, stdout, delivered>>

\* The list by label, after the get answered not-found.
listResourcePods ==
    /\ pc = "listResourcePods"
    /\ \E requestFails \in BOOLEAN :
         LET err == IF requestFails THEN ErrOther ELSE NoErr
             items == IF requestFails THEN <<>> ELSE ListPods(locals.pods, locals.name)
         IN /\ trace' = Append(trace, EvCall("Pods.List", err, err))
            /\ ret' = IF err # NoErr
                      THEN ResourcesReturned(<<>>, err)
                      ELSE IF Len(items) = 0
                      THEN ResourcesReturned(<<>>, ErrUnknownResource(locals.name))
                      ELSE ResourcesReturned(PodNamesOf(items), NoErr)
    /\ pc' = "idle"
    /\ UNCHANGED <<config, cli, parked, objects, status, op, step, locals, stdout, delivered>>

NextResources ==
    \/ GetResources
    \/ listResourcePods

SpecResources == Init /\ [][NextResources]_vars

(***************************************************************************)
(* imageName.                                                              *)
(***************************************************************************)
\* The registries of a ClusterConfig (empty when none is given), the images
\* and the tags imageName is called with.
Registries == {"", "reg", "reg.local:5000"}
Images == {"onosproject/onos-topo", "onosproject/onos-cli", "atomix/atomix-k8s-controller", "envoy"}
ImageTagValues == {"", "debug", "latest", "v1.0"}

imagePrefixIsRegistry(registry) == registry

\* imagePrefix: the registry and a slash, or nothing without a registry.
imagePrefix(registry) == IF registry # "" THEN registry \o "/" ELSE ""

\* imageName: the prefix, the image, a colon, the tag, written in this order
\* to the buffer.
imageNameOf(registry, image, tag) == imagePrefix(registry) \o image \o ":" \o tag

\* A call of imageName on a controller whose config has the given registry.
imageName ==
    /\ pc = "idle"
    /\ op' = "imageName"
    /\ \E registry \in Registries, image \in Images, tag \in ImageTagValues :
         /\ locals' = [NoLocals EXCEPT !.registry = registry, !.image = image,
                                       !.tag = tag]
         /\ ret' = Returned(SucceedResult(NewStatusWriter),
                            imageNameOf(registry, image, tag), 0)
    /\ trace' = <<>>
    /\ UNCHANGED <<config, cli, parked, objects, status, pc, step, stdout, delivered>>

NextImageName ==
    \/ imageName

SpecImageName == Init /\ [][NextImageName]_vars

(***************************************************************************)
(* Two controllers, for two cluster IDs, on one Kubernetes cluster.  Each   *)
(* request a controller sends names the namespace it is for, or none for a  *)
(* kind that is not namespaced.  One operation of one controller runs at a  *)
(* time, request by request.                                                *)
(***************************************************************************)
ClusterIDs == {"c1", "c2"}

\* The scope of a request that names no namespace.
ClusterScope == ""

\* The creates of Setup in the order Setup makes them: the function, the
\* kind, the object's name ("" for c.clusterID), whether the client call
\* takes the namespace c.clusterID, and whether the function tests
\* IsAlreadyExists and returns nil for it.
CreateCalls ==
    << [fn |-> "createClusterRole", kind |-> "ClusterRole", name |-> "",
        namespaced |-> FALSE, ignoresExisting |-> TRUE],
       [fn |-> "createClusterRoleBinding", kind |-> "ClusterRoleBinding", name |-> "",
        namespaced |-> FALSE, ignoresExisting |-> FALSE],
       [fn |-> "createServiceAccount", kind |-> "ServiceAccount", name |-> "",
        namespaced |-> TRUE, ignoresExisting |-> FALSE],
       [fn |-> "createOnosTopoConfigMap", kind |-> "ConfigMap", name |-> "onos-topo",
        namespaced |-> TRUE, ignoresExisting |-> FALSE],
       [fn |-> "createOnosTopoService", kind |-> "Service", name |-> "onos-topo",
        namespaced |-> TRUE, ignoresExisting |-> FALSE],
       [fn |-> "createOnosTopoDeployment", kind |-> "Deployment", name |-> "onos-topo",
        namespaced |-> TRUE, ignoresExisting |-> FALSE],
       [fn |-> "createOnosTopoProxyConfigMap", kind |-> "ConfigMap",
        name |-> "onos-topo-envoy", namespaced |-> TRUE, ignoresExisting |-> FALSE],
       [fn |-> "createOnosTopoProxyDeployment", kind |-> "Deployment",
        name |-> "onos-topo-envoy", namespaced |-> TRUE, ignoresExisting |-> FALSE],
       [fn |-> "createOnosTopoProxyService", kind |-> "Service",
        name |-> "onos-topo-envoy", namespaced |-> TRUE, ignoresExisting |-> FALSE] >>

\* The read requests written in the controller's functions, one row for each
\* request site: the function it is written in, its verb, the kind it is
\* for and whether the client call takes the namespace c.clusterID.  A row
\* is the request alone; what the function does before and after it is in
\* the actions of the function's operation.
ReadCalls ==
    { [fn |-> "GetResources", verb |-> "get", kind |-> "Pod", namespaced |-> TRUE],
      [fn |-> "GetResources", verb |-> "list", kind |-> "Pod", namespaced |-> TRUE],
      [fn |-> "GetLogs", verb |-> "get", kind |-> "Pod", namespaced |-> TRUE],
      [fn |-> "getLogs", verb |-> "log", kind |-> "Pod", namespaced |-> TRUE],
      [fn |-> "StreamLogs", verb |-> "get", kind |-> "Pod", namespaced |-> TRUE],
      [fn |-> "streamLogs", verb |-> "log", kind |-> "Pod", namespaced |-> TRUE],
      [fn |-> "DownloadLogs", verb |-> "get", kind |-> "Pod", namespaced |-> TRUE],
      [fn |-> "downloadLogs", verb |-> "log", kind |-> "Pod", namespaced |-> TRUE],
      [fn |-> "RemoveNetwork", verb |-> "list", kind |-> "ConfigMap", namespaced |-> TRUE],
      [fn |-> "awaitOnosTopoDeploymentReady", verb |-> "list", kind |-> "Pod", namespaced |-> TRUE],
      [fn |-> "awaitOnosTopoDeploymentReady", verb |-> "get", kind |-> "Deployment", namespaced |-> TRUE],
      [fn |-> "awaitOnosTopoProxyDeploymentReady", verb |-> "get", kind |-> "Deployment", namespaced |-> TRUE],
      [fn |-> "GetOnosTopoNodes", verb |-> "list", kind |-> "Pod", namespaced |-> TRUE] }

\* The remote command executions: c.execute(pod, ...) in the topology wait,
\* for a pod listed from c.clusterID, and c.executeCLI(command) in addDevice
\* and removeDevice.  Both run the command in a pod of the controller's own
\* partition.
ExecCalls ==
    { [fn |-> "awaitOnosTopoDeploymentReady", verb |-> "exec", kind |-> "Pod", namespaced |-> TRUE],
      [fn |-> "addDevice", verb |-> "exec", kind |-> "Pod", namespaced |-> TRUE],
      [fn |-> "removeDevice", verb |-> "exec", kind |-> "Pod", namespaced |-> TRUE] }

\* The deletes of the teardown functions: they delete objects of the
\* controller's own partition.
DeleteCalls ==
    { [fn |-> "teardownSimulator", verb |-> "delete", kind |-> "Pod", namespaced |-> TRUE],
      [fn |-> "teardownNetwork", verb |-> "delete", kind |-> "ConfigMap", namespaced |-> TRUE],
      [fn |-> "teardownApp", verb |-> "delete", kind |-> "Pod", namespaced |-> TRUE] }

\* The namespace a request of the controller id is for.
TargetNamespace(id, namespaced) == IF namespaced THEN id ELSE ClusterScope

ObjectNameFixed(id, name) == IF name = "" THEN "onit" ELSE name

\* The name of an object the controller id creates.
ObjectName(id, name) == IF name = "" THEN id ELSE name

\* The object a create of the controller id is for.
ObjectOf(id, call) ==
    [namespace |-> TargetNamespace(id, call.namespaced), kind |-> call.kind,
     name |-> ObjectName(id, call.name)]

\* The objects of the cluster that a create of obj meets, whoever created
\* them: the object of its namespace, kind and name, when there is one.
Existing(obj) ==
    {o \in objects :
       o.namespace = obj.namespace /\ o.kind = obj.kind /\ o.name = obj.name}

\* The pods the setup functions of AddSimulator, AddApp and AddNetwork
\* create for a resource: in the namespace c.clusterID.
ResourceCalls ==
    { [fn |-> "setupSimulator", verb |-> "create", kind |-> "Pod", namespaced |-> TRUE],
      [fn |-> "setupApp", verb |-> "create", kind |-> "Pod", namespaced |-> TRUE],
      [fn |-> "setupNetwork", verb |-> "create", kind |-> "Pod", namespaced |-> TRUE] }

\* The names of the resources that get a pod.
ResourcePods == {"n1"}

\* The answer of the cluster to a create of obj, sent by the controller id:
\* the request fails, or the object exists already, or it is created.
Create(id, obj, fails) ==
    LET err == IF fails THEN ErrOther
               ELSE IF Existing(obj) # {} THEN ErrAlreadyExists ELSE NoErr
    IN [err |-> err,
        objects |-> IF err # NoErr THEN objects
                    ELSE objects \cup {[namespace |-> obj.namespace, kind |-> obj.kind,
                                        name |-> obj.name, owner |-> id]},
        seen |-> IF err = ErrAlreadyExists THEN Existing(obj) ELSE {}]

\* A create of Setup: the first one, of a controller that enters Setup, or
\* the next one of the Setup that runs.  The create function returns the
\* error of the create, or nil for AlreadyExists when it tests for it; on an
\* error Setup returns, else it goes on to the create after this one.
CreateObject ==
    /\ pc \in {"idle", "creating"}
    /\ \E id \in ClusterIDs, fails \in BOOLEAN :
         LET k == IF pc = "idle" THEN 1 ELSE locals.i
             call == CreateCalls[k]
             obj == ObjectOf(id, call)
             made == Create(id, obj, fails)
             err == IF call.ignoresExisting THEN IgnoreAlreadyExists(made.err)
                    ELSE made.err
         IN /\ pc = "creating" => id = locals.clusterID
            /\ objects' = made.objects
            /\ pc' = IF err # NoErr \/ k = Len(CreateCalls) THEN "idle" ELSE "creating"
            /\ trace' = <<Ev("create", call.fn, err, made.err)>>
            /\ locals' = [NoLocals EXCEPT !.clusterID = id,
                                          !.namespace = obj.namespace,
                                          !.seen = made.seen,
                                          !.i = k + 1]
    /\ op' = "request"
    /\ ret' = NoRet
    /\ stdout' = <<>>
    /\ UNCHANGED <<config, cli, parked, status, step, delivered>>

\* The controller id creates the pod of a resource.
CreateResource ==
    /\ pc = "idle"
    /\ \E id \in ClusterIDs, call \in ResourceCalls, name \in ResourcePods,
          fails \in BOOLEAN :
         LET obj == [namespace |-> TargetNamespace(id, call.namespaced),
                     kind |-> call.kind, name |-> name]
             made == Create(id, obj, fails)
         IN /\ objects' = made.objects
            /\ trace' = <<Ev(call.verb, call.fn, made.err, made.err)>>
            /\ locals' = [NoLocals EXCEPT !.clusterID = id,
                                          !.namespace = obj.namespace,
                                          !.seen = made.seen]
    /\ op' = "request"
    /\ ret' = NoRet
    /\ stdout' = <<>>
    /\ UNCHANGED <<config, cli, parked, status, pc, step, delivered>>

\* The pods of the cluster: each Deployment runs pods in its own namespace.
PodsOfCluster ==
    {[namespace |-> d.namespace, kind |-> "Pod", name |-> d.name, owner |-> d.owner] :
        d \in {o \in objects : o.kind = "Deployment"}}

\* The objects of a kind that a request for the namespace ns can reach.
Visible(ns, kind) ==
    {o \in objects \cup PodsOfCluster : o.namespace = ns /\ o.kind = kind}

\* A request of the controller id at the site call, the first of a new
\* operation: the namespace it is for, and the objects it reaches there.
Request(id, call) ==
    LET ns == TargetNamespace(id, call.namespaced)
    IN /\ trace' = <<Ev(call.verb, call.fn, NoErr, NoErr)>>
       /\ locals' = [NoLocals EXCEPT !.clusterID = id, !.namespace = ns,
                                     !.seen = Visible(ns, call.kind)]
       /\ op' = "request"
       /\ ret' = NoRet
       /\ stdout' = <<>>

\* The controller id sends one of its gets, lists or log requests.
ReadObject ==
    /\ pc = "idle"
    /\ \E id \in ClusterIDs, call \in ReadCalls : Request(id, call)
    /\ UNCHANGED <<config, cli, parked, objects, status, pc, step, delivered>>

\* The controller id runs a command in a pod.
ExecCommand ==
    /\ pc = "idle"
    /\ \E id \in ClusterIDs, call \in ExecCalls : Request(id, call)
    /\ UNCHANGED <<config, cli, parked, objects, status, pc, step, delivered>>

\* The controller id deletes the object of a resource name: the object of
\* that kind and name in the namespace of the request, when there is one.
DeleteObject ==
    /\ pc = "idle"
    /\ \E id \in ClusterIDs, call \in DeleteCalls, name \in Names :
         /\ Request(id, call)
         /\ objects' = {o \in objects :
                          ~ ( /\ o.namespace = TargetNamespace(id, call.namespaced)
                              /\ o.kind = call.kind
                              /\ o.name = name )}
    /\ UNCHANGED <<config, cli, parked, status, pc, step, delivered>>

(***************************************************************************)
(* PortForward.  The controller gets the pod from its namespace, builds    *)
(* the request for the pod's portforward subresource, and starts a         *)
(* goroutine that waits for readyChan to be closed and then prints what    *)
(* the forwarder wrote: errOut, exiting the process with code 1, or else   *)
(* out.  ForwardPorts then runs until the forward ends.  The goroutines    *)
(* are kept in parked: the one of the call in progress that waits at       *)
(* readyChan, and the number of those whose channel has been closed and    *)
(* that have not run yet.                                                  *)
(***************************************************************************)
\* What the goroutine can find in out.
ForwarderOut == {"", "Forwarding from 127.0.0.1:5000 -> 5000"}

\* What the goroutine can find in errOut.
ForwarderErrOut == {"", "error forwarding port"}

\* What PortForward returns: the error.
ErrorReturned(err) ==
    [kind |-> "returned", status |-> SucceedResult(NewStatusWriter),
     message |-> "", code |-> 0, err |-> err]

\* The most goroutines followed at a time between the close of their
\* channel and their run.
MaxReady == 1

\* The goroutines of PortForward: waiting says that the goroutine of the call
\* in progress waits at readyChan, ready counts the goroutines whose channel
\* is closed and that have not run yet.
Watchers(waiting, ready) ==
    IF ~waiting /\ ready = 0 THEN NoCall
    ELSE [NoCall EXCEPT !.op = "PortForward.go",
                        !.pc = IF waiting THEN "waiting" ELSE "ready",
                        !.locals.count = ready]

\* The goroutines whose channel is closed and that have not run yet.
Ready == parked.locals.count

\* Namespace(pod.Namespace): the request is for the namespace of the pod.
RequestNamespace(id, podNamespace) == podNamespace

\* A step of PortForward that can fail: return the error, or go on.
ForwardStep(err, ev, next) ==
    /\ trace' = Append(trace, ev)
    /\ IF err # NoErr
       THEN /\ pc' = "idle"
            /\ ret' = ErrorReturned(err)
       ELSE /\ pc' = next
            /\ ret' = ret

\* PortForward's entry: the pod is got from the namespace c.clusterID; found is
\* the pod of the resource name there, if there is one.
PortForward ==
    /\ pc = "idle"
    /\ op' = "PortForward"
    /\ stdout' = <<>>
    /\ \E id \in ClusterIDs, fails \in BOOLEAN :
       \E found \in SUBSET Visible(TargetNamespace(id, TRUE), "Pod") :
         LET err == IF fails THEN ErrOther
                    ELSE IF found = {} THEN ErrNotFound ELSE NoErr
         IN
         /\ Cardinality(found) <= 1
         /\ locals' = [NoLocals EXCEPT !.clusterID = id,
                                       !.namespace = TargetNamespace(id, TRUE),
                                       !.seen = IF fails THEN {} ELSE found]
         /\ trace' = <<Ev("get", "PortForward", err, err)>>
         /\ IF err # NoErr
            THEN /\ pc' = "idle"
                 /\ ret' = ErrorReturned(err)
            ELSE /\ pc' = "RoundTripperFor"
                 /\ ret' = NoRet
    /\ UNCHANGED <<config, cli, parked, objects, status, step, delivered>>

\* spdy.RoundTripperFor(c.restconfig).
RoundTripperFor ==
    /\ pc = "RoundTripperFor"
    /\ \E err \in {NoErr, ErrOther} :
         ForwardStep(err, EvCall("RoundTripperFor", err, NoErr), "portforward.New")
    /\ UNCHANGED <<config, cli, parked, objects, status, op, step, locals, stdout,
                   delivered>>

\* portforward.New(...), and the goroutine started after it.
portforwardNew ==
    /\ pc = "portforward.New"
    /\ \E err \in {NoErr, ErrOther} :
         /\ ForwardStep(err, EvCall("portforward.New", err, NoErr), "ForwardPorts")
         /\ parked' = IF err # NoErr THEN parked
                      ELSE Watchers(TRUE, Ready)
    /\ UNCHANGED <<config, cli, objects, status, op, step, locals, stdout, delivered>>

\* forwarder.ForwardPorts() sends the request: it fails and returns, readyChan
\* is never closed and the goroutine, which waits for ever, is left out; or
\* the forward is set up and readyChan is closed.
ForwardPorts ==
    /\ pc = "ForwardPorts"
    /\ \E err \in {NoErr, ErrOther} :
         /\ err = NoErr => Ready < MaxReady
         /\ ForwardStep(err, Ev("portforward", "PortForward", err, err), "forwarding")
         /\ parked' = IF err # NoErr THEN Watchers(FALSE, Ready)
                      ELSE Watchers(FALSE, Ready + 1)
    /\ locals' = [locals EXCEPT
                    !.namespace = RequestNamespace(locals.clusterID,
                                                   (CHOOSE p \in locals.seen : TRUE).namespace)]
    /\ UNCHANGED <<config, cli, objects, status, op, step, stdout, delivered>>

\* The forward ends and ForwardPorts returns.
forwardEnds ==
    /\ pc = "forwarding"
    /\ \E err \in {NoErr, ErrOther} :
         /\ pc' = "idle"
         /\ ret' = ErrorReturned(err)
    /\ UNCHANGED <<config, cli, parked, objects, status, op, step, locals, trace,
                   stdout, delivered>>

\* A goroutine after readyChan was closed, at any time of the process that
\* still runs: errOut is printed and os.Exit(1) ends the process with the call
\* in progress and the other goroutines, or out is printed, or nothing is.
forwardReady ==
    /\ Ready > 0
    /\ pc # "exited"
    /\ \E out \in ForwarderOut, errOut \in ForwarderErrOut :
         IF errOut # ""
         THEN /\ stdout' = Append(stdout, errOut)
              /\ pc' = "exited"
              /\ parked' = NoCall
              /\ op' = "none"
              /\ locals' = NoLocals
              /\ trace' = <<>>
              /\ ret' = NoRet
         ELSE /\ stdout' = IF out # "" THEN Append(stdout, out) ELSE stdout
              /\ parked' = Watchers(parked.pc = "waiting", Ready - 1)
              /\ UNCHANGED <<pc, op, locals, trace, ret>>
    /\ UNCHANGED <<config, cli, objects, status, step, delivered>>

NextClusters ==
    \/ CreateObject
    \/ CreateResource
    \/ ReadObject
    \/ ExecCommand
    \/ DeleteObject
    \/ PortForward
    \/ RoundTripperFor
    \/ portforwardNew
    \/ ForwardPorts
    \/ forwardEnds
    \/ forwardReady

\* One configuration is enough here: no request takes its namespace from it.
InitClusters == InitOverlap

SpecClusters == InitClusters /\ [][NextClusters]_vars

(***************************************************************************)
(* The create-cluster command.  It reads its flags, rejects an image pull  *)
(* policy that is none of the three Kubernetes policies, obtains the onit  *)
(* controller and the cluster controller, stores the cluster ID as the     *)
(* default cluster, runs Setup and prints the cluster ID.  exitError and   *)
(* exitStatus end the process with a non-zero exit code.                   *)
(***************************************************************************)
\* corev1.PullAlways, corev1.PullIfNotPresent, corev1.PullNever.
PullPolicies == {"Always", "IfNotPresent", "Never"}

\* Values of the image-pull-policy flag.
PolicyFlags == PullPolicies \cup {"Sometimes"}

\* The command's positional arguments: none, or a cluster ID.
ClusterArgs == {<<>>, <<"c1">>}

\* What newUUIDString() can return.
UUIDs == {"u1"}

\* The command with its default cluster stored only after Setup.
CreateStepsStoreLast == <<"NewController", "NewCluster", "Setup", "setDefaultCluster">>

\* The calls of the command after its flag checks, in program order.
CreateSteps == <<"NewController", "NewCluster", "setDefaultCluster", "Setup">>

\* The command is about to make the call.
At(call) == cli.pc = "run" /\ CreateSteps[cli.at] = call

\* The command having made the call.
Called(c, call) == [c EXCEPT !.calls = Append(@, call)]

\* The command going on after a call: the next call, or the end of the command.
GoesOn(c) ==
    IF c.at = Len(CreateSteps) THEN [c EXCEPT !.pc = "done", !.exit = 0]
    ELSE [c EXCEPT !.at = @ + 1]

\* exitError(err): the error is printed and the process exits non-zero.
exitError(c) == [c EXCEPT !.pc = "exited", !.exit = 1]

\* exitStatus(status): the failed step is printed and the process exits non-zero.
exitStatus(c) == [c EXCEPT !.pc = "exited", !.exit = 1]

\* The cluster ID: the first argument, or a fresh "cluster-<uuid>".
ClusterIDOf(args, uuid) == IF Len(args) > 0 THEN args[1] ELSE "cluster-" \o uuid

\* The command starts: the flags are read and the pull policy is checked.
createCluster ==
    /\ cli.pc = "start"
    /\ \E policy \in PolicyFlags, args \in ClusterArgs :
         LET c == [cli EXCEPT !.policy = policy, !.args = args]
         IN cli' = IF policy \notin PullPolicies THEN exitError(c)
                   ELSE [c EXCEPT !.pc = "run", !.at = 1]
    /\ UNCHANGED <<config, parked, objects, status, op, pc, step, locals, trace, ret,
                   stdout, delivered>>

\* controller, err := onit.NewController().
NewController ==
    /\ At("NewController")
    /\ \E fails \in BOOLEAN :
         cli' = IF fails THEN exitError(Called(cli, "NewController"))
                ELSE GoesOn(Called(cli, "NewController"))
    /\ UNCHANGED <<config, parked, objects, status, op, pc, step, locals, trace, ret,
                   stdout, delivered>>

\* The cluster ID is chosen and cluster, status := controller.NewCluster(...).
NewCluster ==
    /\ At("NewCluster")
    /\ \E uuid \in UUIDs, failed \in BOOLEAN :
         LET c == Called([cli EXCEPT !.clusterID = ClusterIDOf(cli.args, uuid)],
                         "NewCluster")
         IN cli' = IF failed THEN exitStatus(c) ELSE GoesOn(c)
    /\ UNCHANGED <<config, parked, objects, status, op, pc, step, locals, trace, ret,
                   stdout, delivered>>

\* err = setDefaultCluster(clusterID).
setDefaultCluster ==
    /\ At("setDefaultCluster")
    /\ \E fails \in BOOLEAN :
         LET c == Called(cli, "setDefaultCluster")
         IN cli' = IF fails THEN exitError(c)
                   ELSE GoesOn([c EXCEPT !.defaultCluster = cli.clusterID])
    /\ UNCHANGED <<config, parked, objects, status, op, pc, step, locals, trace, ret,
                   stdout, delivered>>

\* cluster.Setup() is called.
clusterSetup ==
    /\ At("Setup")
    /\ op # "Setup"
    /\ Setup

\* Setup returned its status: exitStatus when it failed, else the cluster ID
\* is printed.
setupReturned ==
    /\ At("Setup")
    /\ op = "Setup"
    /\ pc = "idle"
    /\ ret.kind = "returned"
    /\ LET c == Called(cli, "Setup")
       IN cli' = IF ret.status.failed THEN exitStatus(c)
                 ELSE GoesOn([c EXCEPT !.printed = Append(@, cli.clusterID)])
    /\ UNCHANGED <<config, parked, objects, status, op, pc, step, locals, trace, ret,
                   stdout, delivered>>

NextCreate ==
    \/ createCluster
    \/ NewController
    \/ NewCluster
    \/ setDefaultCluster
    \/ clusterSetup
    \/ createClusterRole
    \/ createClusterRoleBinding
    \/ createServiceAccount
    \/ setupAtomixController
    \/ setupPartitions
    \/ createOnosSecret
    \/ createOnosTopoConfigMap
    \/ createOnosTopoService
    \/ createOnosTopoDeployment
    \/ createOnosTopoProxyConfigMap
    \/ createOnosTopoProxyDeployment
    \/ createOnosTopoProxyService
    \/ awaitOnosTopoDeploymentReady
    \/ unblockOnosTopoPods
    \/ getOnosTopoDeployment
    \/ sleepOnosTopo
    \/ awaitOnosTopoProxyDeploymentReady
    \/ sleepOnosTopoProxy
    \/ setupOnosConfig
    \/ setupGUI
    \/ setupOnosCli
    \/ setupIngress
    \/ setupReturned

\* The command's configuration has one topology node.
InitCreate == Init /\ config.TopoNodes = 1

SpecCreate == InitCreate /\ [][NextCreate]_vars

(***************************************************************************)
(* GetFreePorts.  The loop resolves "localhost:<debugPort>" and listens on *)
(* it; a port on which the listen succeeds is appended, and the next port  *)
(* is tried until count ports are found.  A failing resolve ends the call  *)
(* with the error.  probes lists the listens made and whether each         *)
(* succeeded.                                                              *)
(***************************************************************************)
\* Largest count asked for.
MaxCount == 3

\* Largest number of listens in one call.
MaxProbes == 5

\* The first port probed.
DebugPort == 40000

\* The error of net.ResolveTCPAddr.
ErrResolve == "resolve failed"

\* What GetFreePorts returns: the ports and the error.
PortsReturned(ports, err) ==
    [kind |-> "returned", status |-> SucceedResult(NewStatusWriter),
     message |-> "", code |-> 0, ports |-> ports, err |-> err]

PortsAfterAnyProbe(ports, port, listened) == Append(ports, port)

\* ports after the listen on port: appended when the listen succeeded.
PortsAfterProbe(ports, port, listened) ==
    IF listened THEN Append(ports, port) ELSE ports

\* The loop's test i < count, and the return after the loop.
FreePortsLoop(l) ==
    IF l.i < l.count
    THEN /\ pc' = "probePort"
         /\ ret' = NoRet
    ELSE /\ pc' = "idle"
         /\ ret' = PortsReturned(l.ports, NoErr)

\* GetFreePorts(count) is called.
GetFreePorts ==
    /\ pc = "idle"
    /\ op' = "GetFreePorts"
    /\ trace' = <<>>
    /\ \E count \in -1..MaxCount :
         LET l == [NoLocals EXCEPT !.count = count, !.debugPort = DebugPort]
         IN /\ locals' = l
            /\ FreePortsLoop(l)
    /\ UNCHANGED <<config, cli, parked, objects, status, step, stdout, delivered>>

\* One pass of the loop: resolve the address, listen, count the port.
probePort ==
    /\ pc = "probePort"
    /\ \E resolveFails \in BOOLEAN, listened \in BOOLEAN :
         IF resolveFails
         THEN /\ pc' = "idle"
              /\ ret' = PortsReturned(<<>>, ErrResolve)
              /\ trace' = Append(trace, EvCall("ResolveTCPAddr", ErrResolve, NoErr))
              /\ UNCHANGED locals
         ELSE /\ Len(locals.probes) < MaxProbes
              /\ LET err == IF listened THEN NoErr ELSE ErrOther
                     l == [locals EXCEPT
                             !.probes = Append(@, [port |-> locals.debugPort,
                                                   listened |-> listened]),
                             !.ports = PortsAfterProbe(@, locals.debugPort, listened),
                             !.i = IF listened THEN @ + 1 ELSE @,
                             !.debugPort = @ + 1]
                 IN /\ locals' = l
                    /\ trace' = Append(trace, EvCall("ListenTCP", err, NoErr))
                    /\ FreePortsLoop(l)
    /\ UNCHANGED <<config, cli, parked, objects, status, op, step, stdout, delivered>>

NextFreePorts ==
    \/ GetFreePorts
    \/ probePort

SpecFreePorts == Init /\ [][NextFreePorts]_vars



(***************************************************************************)
(* Properties.                                                             *)
(***************************************************************************)
\* The operation named name has returned to its caller.
HasReturned(name) == op = name /\ pc = "idle" /\ ret.kind = "returned"

\* The events that are calls, those that are Starts, the Starts of a trace.
IsCall(e) == e.ev = "call"
IsStart(e) == e.ev = "Start"
StartsOf(tr) == SelectSeq(tr, IsStart)

\* The step of Setup each function is called in.
StepOfCall(name) ==
    CASE name \in {"createClusterRole", "createClusterRoleBinding",
                   "createServiceAccount"} -> 1
      [] name = "setupAtomixController" -> 2
      [] name = "setupPartitions" -> 3
      [] name = "createOnosSecret" -> 4
      [] name \in {"createOnosTopoConfigMap", "createOnosTopoService",
                   "createOnosTopoDeployment", "createOnosTopoProxyConfigMap",
                   "createOnosTopoProxyDeployment", "createOnosTopoProxyService",
                   "awaitOnosTopoDeploymentReady",
                   "awaitOnosTopoProxyDeploymentReady"} -> 5
      [] name = "setupOnosConfig" -> 6
      [] name = "setupGUI" -> 7
      [] name = "setupOnosCli" -> 8
      [] name = "setupIngress" -> 9
      [] OTHER -> 0

\* The order of Setup's steps as the specification gives it.
StepOrder ==
    << "Setting up RBAC",
       "Setting up Atomix controller",
       "Starting Raft partitions",
       "Adding secrets",
       "Bootstrapping onos-topo cluster",
       "Bootstrapping onos-config cluster",
       "Setting up GUI",
       "Setting up CLI",
       "Creating ingress for services" >>

\* C1: when a step of Setup fails (a call of the step returns an error),
\* Setup makes no later call and starts no later step, and it has returned a
\* failed status that carries the label of that step and the error.
C1_SetupStopsAtFailedStep ==
    op = "Setup" =>
      \A k \in 1..Len(trace) :
        (IsCall(trace[k]) /\ trace[k].err # NoErr) =>
          /\ \A j \in (k + 1)..Len(trace) : ~IsCall(trace[j]) /\ ~IsStart(trace[j])
          /\ HasReturned("Setup")
          /\ ret.status.failed
          /\ ret.status.label = StepOrder[StepOfCall(trace[k].arg)]
          /\ ret.status.err = trace[k].err

\* Setup returned a failure of the config-service step, the sixth.
C1_Witness ==
    /\ HasReturned("Setup")
    /\ ret.status.failed
    /\ ret.status.label = "Bootstrapping onos-config cluster"
    /\ \E k \in 1..Len(trace) :
         IsCall(trace[k]) /\ trace[k].arg = "setupOnosConfig" /\ trace[k].err # NoErr

\* C2: Setup starts its steps in the fixed order, every call is made in the
\* step it belongs to, a step is started only right after the step before it
\* succeeded, and Setup returns success only after the ingress step succeeded.
C2_SetupOrder ==
    op = "Setup" =>
      LET starts == StartsOf(trace)
      IN /\ Len(starts) <= Len(StepOrder)
         /\ Len(starts) = step
         /\ \A k \in 1..Len(starts) : starts[k].arg = StepOrder[k]
         /\ \A j \in 1..Len(trace) :
              IsCall(trace[j]) =>
                StepOfCall(trace[j].arg) = Len(StartsOf(SubSeq(trace, 1, j)))
         /\ \A j \in 2..Len(trace) :
              IsStart(trace[j]) =>
                /\ j > 2
                /\ trace[j - 1] = EvSucceed
                /\ IsCall(trace[j - 2])
                /\ trace[j - 2].err = NoErr
                /\ StepOrder[StepOfCall(trace[j - 2].arg) + 1] = trace[j].arg
         /\ (HasReturned("Setup") /\ ~ret.status.failed) =>
              /\ Len(starts) = Len(StepOrder)
              /\ Len(trace) >= 2
              /\ trace[Len(trace)] = EvSucceed
              /\ trace[Len(trace) - 1] = EvCall("setupIngress", NoErr, NoErr)

\* Setup returned success after all nine steps.
C2_Witness ==
    /\ HasReturned("Setup")
    /\ ~ret.status.failed
    /\ Len(StartsOf(trace)) = 9

\* The order of the topology-service bootstrap as the specification gives it.
TopoOrder ==
    << "createOnosTopoConfigMap",
       "createOnosTopoService",
       "createOnosTopoDeployment",
       "createOnosTopoProxyConfigMap",
       "createOnosTopoProxyDeployment",
       "createOnosTopoProxyService",
       "awaitOnosTopoDeploymentReady",
       "awaitOnosTopoProxyDeploymentReady" >>

IsTopoCall(e) == IsCall(e) /\ StepOfCall(e.arg) = 5

\* C3: the sub-steps of setupOnosTopo that ran are a prefix of the order
\* above; only the last one that ran can have returned an error, and then
\* Setup has returned, right after it, the failure of the topology step with
\* that error.
C3_TopoBootstrapOrder ==
    op = "Setup" =>
      LET tc == SelectSeq(trace, IsTopoCall)
      IN /\ Len(tc) <= Len(TopoOrder)
         /\ \A k \in 1..Len(tc) : tc[k].arg = TopoOrder[k]
         /\ \A k \in 1..(Len(tc) - 1) : tc[k].err = NoErr
         /\ (Len(tc) > 0 /\ tc[Len(tc)].err # NoErr) =>
              /\ HasReturned("Setup")
              /\ step = 5
              /\ trace[Len(trace)] = EvFail(tc[Len(tc)].err)
              /\ trace[Len(trace) - 1] = tc[Len(tc)]
         /\ (step > 5) => (Len(tc) = Len(TopoOrder) /\ tc[Len(tc)].err = NoErr)

\* setupOnosTopo stopped at the proxy deployment, the fifth sub-step, after
\* four sub-steps that succeeded.
C3_Witness ==
    /\ HasReturned("Setup")
    /\ LET tc == SelectSeq(trace, IsTopoCall)
       IN /\ Len(tc) = 5
          /\ tc[5].arg = "createOnosTopoProxyDeployment"
          /\ tc[5].err # NoErr

\* C4: a create that answers AlreadyExists counts as a success of the
\* function that issued it, so Setup does not fail at it.
C4_AlreadyExistsIsSuccess ==
    op = "Setup" =>
      \A k \in 1..Len(trace) :
        (IsCall(trace[k]) /\ trace[k].api = ErrAlreadyExists) => trace[k].err = NoErr

\* The teardown and reconciliation parts of RemoveSimulator and RemoveNetwork.
IsTeardownCall(e) == IsCall(e) /\ e.arg \in {"teardownSimulator", "teardownNetwork"}
IsReconcileEvent(e) ==
    \/ e.ev = "removeDevice"
    \/ IsCall(e) /\ e.arg = "removeNetworkFromConfig"

\* C5: in RemoveSimulator and RemoveNetwork a failed teardown is recorded
\* (c.status.Fail with its error) and followed by the start of the
\* reconciliation step, which the operation has entered; the operation returns
\* the result of a Fail only right after a reconciliation call that failed.
C5_RemoveContinuesAfterTeardownFailure ==
    op \in {"RemoveSimulator", "RemoveNetwork"} =>
      /\ \A k \in 1..Len(trace) :
           (IsTeardownCall(trace[k]) /\ trace[k].err # NoErr) =>
             /\ Len(trace) >= k + 2
             /\ trace[k + 1] = EvFail(trace[k].err)
             /\ trace[k + 2] = EvStart("Reconfiguring topology")
             /\ \/ pc \in {"removeSimulatorFromConfig", "removeNetworkFromConfig",
                           "removeNetworkDevices"}
                \/ pc \in {"idle", "crashed"} /\ Len(trace) >= k + 3
      /\ (HasReturned(op) /\ trace[Len(trace)].ev = "Fail") =>
           /\ Len(trace) >= 2
           /\ IsReconcileEvent(trace[Len(trace) - 1])
           /\ trace[Len(trace) - 1].err = trace[Len(trace)].err
           /\ trace[Len(trace)].err # NoErr

\* RemoveNetwork returned success after a failed teardown and two removeDevice
\* commands.
C5_Witness ==
    /\ HasReturned("RemoveNetwork")
    /\ trace[Len(trace)] = EvSucceed
    /\ \E k \in 1..Len(trace) : IsTeardownCall(trace[k]) /\ trace[k].err # NoErr
    /\ \E k \in 1..Len(trace) :
         /\ trace[k].ev = "removeDevice"
         /\ trace[k].arg = "onos topo remove device n1-s1"
         /\ trace[k].err = NoErr

IsProvisionCall(e) == IsCall(e) /\ e.arg \in {"setupSimulator", "setupNetwork"}

\* C6 as stated: in AddSimulator and AddNetwork a failed provision step is
\* recorded and the second step is started all the same.
C6_AddContinuesAfterProvisionFailure ==
    op \in {"AddSimulator", "AddNetwork"} =>
      \A k \in 1..Len(trace) :
        (IsProvisionCall(trace[k]) /\ trace[k].err # NoErr) =>
          /\ Len(trace) >= k + 2
          /\ trace[k + 1] = EvFail(trace[k].err)
          /\ IsStart(trace[k + 2])

\* C6 amended: in AddSimulator and AddNetwork a failed provision step is
\* recorded and ends the operation: it returns at once the result of
\* c.status.Fail for the provision step, the second step is not started and
\* no addDevice command is issued.
C6_AddStopsAtProvisionFailure ==
    op \in {"AddSimulator", "AddNetwork"} =>
      \A k \in 1..Len(trace) :
        (IsProvisionCall(trace[k]) /\ trace[k].err # NoErr) =>
          /\ k = 2
          /\ trace[1] = EvStart(IF op = "AddSimulator" THEN "Setting up simulator"
                                ELSE "Setting up network")
          /\ Len(trace) = k + 1
          /\ trace[k + 1] = EvFail(trace[k].err)
          /\ HasReturned(op)
          /\ \A j \in 1..Len(trace) : trace[j].ev # "addDevice"

\* AddNetwork of two devices returned the failure of setupNetwork.
C6_Witness ==
    /\ HasReturned("AddNetwork")
    /\ locals.num = 2
    /\ trace[Len(trace)].ev = "Fail"
    /\ \E k \in 1..Len(trace) : IsProvisionCall(trace[k]) /\ trace[k].err # NoErr

\* C7: when the teardown step of RemoveSimulator, RemoveNetwork or RemoveApp
\* failed, the status the operation returns is failed and carries the
\* teardown step's label and error.
C7_TeardownFailureReturned ==
    (op \in {"RemoveSimulator", "RemoveNetwork", "RemoveApp"} /\ HasReturned(op)) =>
      \A k \in 1..Len(trace) :
        (IsCall(trace[k])
           /\ trace[k].arg \in {"teardownSimulator", "teardownNetwork", "teardownApp"}
           /\ trace[k].err # NoErr) =>
          /\ ret.status.failed
          /\ ret.status.label = trace[1].arg
          /\ ret.status.err = trace[k].err

\* C8: RemoveNetwork never ends in a panic: whatever the config-map list
\* gave, it returns a status to its caller.
C8_RemoveNetworkNeverPanics ==
    op = "RemoveNetwork" => (pc # "crashed" /\ ret.kind # "panic")

\* C9: when the follow stream cannot be opened or a Read fails with an error
\* other than end-of-stream, RunTests has made no getStatus call and has
\* returned ("", 0, status) with a status that is failed.
C9_StreamFailureSeenAsFailed ==
    op = "RunTests" =>
      \A k \in 1..Len(trace) :
        (IsCall(trace[k]) /\ trace[k].arg \in {"streamLogs", "Read"}
           /\ trace[k].err \notin {NoErr, ErrEOF}) =>
          /\ HasReturned("RunTests")
          /\ \A j \in 1..Len(trace) : trace[j].arg # "getStatus"
          /\ ret.message = ""
          /\ ret.code = 0
          /\ ret.status.failed

\* C10: once the stream has signalled its end, standard output holds exactly
\* the bytes the Reads delivered, in order.
C10_AllBytesPrinted ==
    (op = "RunTests"
       /\ \E k \in 1..Len(trace) :
            IsCall(trace[k]) /\ trace[k].arg = "Read" /\ trace[k].err = ErrEOF)
      => stdout = delivered


(***************************************************************************)
(* RunTests: the job, the status query and the timeout.                    *)
(***************************************************************************)
\* The positions in the trace of the calls of one function.
CallsOf(name) == {j \in 1..Len(trace) : IsCall(trace[j]) /\ trace[j].arg = name}

\* RunTests went through getStatus and the query succeeded or failed.
StatusQueried(err) ==
    /\ HasReturned("RunTests")
    /\ Len(trace) > 0
    /\ trace[Len(trace)] = EvCall("getStatus", err, err)

\* C11: a RunTests call starts the test job exactly once (once it is past
\* startTests, never twice), asks for the pod's terminal status only right
\* after the log stream's Read returned io.EOF, and, when the job started,
\* the stream ended with io.EOF and the status query succeeded, returns
\* exactly the message and the exit code the query produced.
C11_RunTestsReturnsPodStatus ==
    op = "RunTests" =>
      /\ Cardinality(CallsOf("startTests")) <= 1
      /\ pc # "startTests" => Cardinality(CallsOf("startTests")) = 1
      /\ \A j \in CallsOf("getStatus") :
            /\ j > 1
            /\ trace[j - 1] = EvCall("Read", ErrEOF, ErrEOF)
            /\ \E k \in 1..(j - 1) : trace[k] = EvCall("startTests", NoErr, NoErr)
      /\ StatusQueried(NoErr) =>
            /\ ret.message = locals.podStatus.message
            /\ ret.code = locals.podStatus.code

C11_Witness ==
    /\ StatusQueried(NoErr)
    /\ locals.podStatus = [message |-> "Completed", code |-> 2]
    /\ ret.message = "Completed"
    /\ ret.code = 2

\* C12: when the job started and the stream ended with io.EOF but the
\* status query failed, RunTests returns the message
\* "failed to retrieve exit code" and the exit code 1.
C12_StatusFailureReturnsCodeOne ==
    StatusQueried(ErrOther) =>
      /\ ret.message = "failed to retrieve exit code"
      /\ ret.code = 1

C12_Witness ==
    /\ StatusQueried(ErrOther)
    /\ ret.code = 1
    /\ Len(delivered) > 0

\* C13: the job is started with ten minutes when RunTests was called with
\* a timeout of 0 and with the caller's timeout unchanged otherwise.
C13_TimeoutDefault ==
    (op = "RunTests" /\ CallsOf("startTests") # {}) =>
      /\ locals.timeoutArg = 0 => locals.jobTimeout = TenMinutes
      /\ locals.timeoutArg # 0 => locals.jobTimeout = locals.timeoutArg

C13_WitnessDefault ==
    /\ op = "RunTests"
    /\ CallsOf("startTests") # {}
    /\ locals.timeoutArg = 0
    /\ locals.jobTimeout = TenMinutes

(***************************************************************************)
(* The readiness waits.                                                    *)
(***************************************************************************)
\* A wait returned err to setupOnosTopo.
WaitReturned(name, err) ==
    \E j \in 1..Len(trace) : trace[j] = EvCall(name, err, err)

\* The wait is in progress: Setup is at one of its calls.
InWait(name) ==
    IF name = "awaitOnosTopoDeploymentReady" THEN pc \in TopoWaitCalls
    ELSE pc \in {name, "sleepOnosTopoProxy"}

\* Some component's image tag is the debug sentinel.
DebugTagInEffect == \E c \in DOMAIN config.tags : config.tags[c] = Debug

\* C14: awaitOnosTopoDeploymentReady returns nil only from a poll that read
\* ReadyReplicas = TopoNodes, a poll that read fewer or more (and met no
\* error) leaves it polling, and with no debug tag in effect no pod is ever
\* sent the debugger command during the wait.
C14_TopoWaitReturnsWhenReady ==
    op = "Setup" =>
      /\ WaitReturned("awaitOnosTopoDeploymentReady", NoErr) =>
            locals.topoWait.ready = config.TopoNodes
      /\ ( /\ locals.topoWait.polls > 0
           /\ locals.topoWait.errs = 0
           /\ locals.topoWait.ready # config.TopoNodes )
            => InWait("awaitOnosTopoDeploymentReady")
      /\ ~DebugTagInEffect => \A p \in Pods : locals.execs[p] = 0

C14_Witness ==
    /\ op = "Setup"
    /\ WaitReturned("awaitOnosTopoDeploymentReady", NoErr)
    /\ config.TopoNodes = 2
    /\ ~DebugTagInEffect
    /\ locals.topoWait = [polls |-> MaxPolls, ready |-> 2, errs |-> 0]
    /\ locals.running = Pods
    /\ \A p \in Pods : locals.execs[p] = 0

\* C15: a topology-service pod seen running during the wait is sent the
\* debugger command if and only if ImageTags["topo"] is the debug sentinel,
\* whatever the tags of the other components.
C15_AttachIffTopoTagDebug ==
    op = "Setup" =>
      \A p \in locals.running :
        locals.execs[p] > 0 <=> config.tags["topo"] = Debug

\* C16: in one call of awaitOnosTopoDeploymentReady, whatever the polls and
\* the pod lists, a pod name is sent the debugger command at most once, and
\* only a pod seen with its first container running is sent it.
C16_AttachOncePerRunningPod ==
    op = "Setup" =>
      \A p \in Pods :
        /\ locals.execs[p] <= 1
        /\ locals.execs[p] = 1 => p \in locals.running

C16_Witness ==
    /\ pc = "awaitOnosTopoDeploymentReady"
    /\ locals.topoWait.polls = MaxPolls
    /\ locals.unblocked = Pods
    /\ \A p \in Pods : locals.execs[p] = 1

\* The record of a wait whose poll met a failing query: one such poll, the
\* last one, and the wait returned the error.
ErrorEndsWait(w, name) ==
    /\ w.errs <= 1
    /\ w.errs = 1 =>
          /\ w.ready = -1
          /\ WaitReturned(name, ErrOther)
          /\ pc = "idle"
          /\ ret.kind = "returned"

\* C17: a failing pod list, deployment get or debugger command ends either
\* readiness wait in the poll it occurs in: the wait returns the error, it
\* does not repeat the query and it does not poll again.
C17_WaitReturnsQueryError ==
    op = "Setup" =>
      /\ ErrorEndsWait(locals.topoWait, "awaitOnosTopoDeploymentReady")
      /\ ErrorEndsWait(locals.proxyWait, "awaitOnosTopoProxyDeploymentReady")

C17_WitnessTopo ==
    /\ op = "Setup"
    /\ locals.topoWait = [polls |-> MaxPolls, ready |-> -1, errs |-> 1]
    /\ \E p \in Pods : locals.execs[p] = 1 /\ p \notin locals.unblocked
    /\ WaitReturned("awaitOnosTopoDeploymentReady", ErrOther)

\* A wait returns only from a poll that read the desired count or met a
\* failing query, however many polls it made, and until then Setup has not
\* returned.
NoTimeout(w, name, desired) ==
    /\ (WaitReturned(name, NoErr) \/ WaitReturned(name, ErrOther)) =>
          (w.errs > 0 \/ w.ready = desired)
    /\ InWait(name) =>
          /\ w.errs = 0
          /\ w.ready # desired
          /\ ret.kind = "none"
    /\ (w.polls > 0 /\ w.errs = 0 /\ w.ready # desired) => InWait(name)

\* C18: the readiness waits have no timeout.  A poll that reads the desired
\* count or meets a failing query ends the wait; a wait none of whose polls
\* did is still polling, after any number of polls, and Setup has not
\* returned.
C18_WaitsHaveNoTimeout ==
    op = "Setup" =>
      /\ NoTimeout(locals.topoWait, "awaitOnosTopoDeploymentReady", config.TopoNodes)
      /\ NoTimeout(locals.proxyWait, "awaitOnosTopoProxyDeploymentReady", ProxyNodes)

C18_Witness ==
    /\ pc = "awaitOnosTopoProxyDeploymentReady"
    /\ locals.topoWait.polls = MaxPolls
    /\ locals.proxyWait.polls = MaxPolls
    /\ locals.proxyWait.ready # ProxyNodes
    /\ ret.kind = "none"

(***************************************************************************)
(* The devices of a network.                                               *)
(***************************************************************************)
\* The addDevice commands a call issued, in order.
AddedDevices(call) == SelectSeq(call.trace, LAMBDA e : e.ev = "addDevice")

\* The command that adds device i of a network as a Stratum device on port
\* 50001 + i.
StratumCommand(network, i) ==
    "onos topo add device " \o network \o "-s" \o Itoa(i)
      \o " --type Stratum --address " \o network \o "-s" \o Itoa(i)
      \o ":" \o Itoa(50001 + i) \o " --version 1.0.0 --plain --timeout 15s"

\* The topology step of an AddNetwork call ended without a failed addDevice.
TopoStepSucceeded(call) ==
    /\ call.op = "AddNetwork"
    /\ call.pc = "idle"
    /\ call.ret.kind = "returned"
    /\ \E j \in 1..Len(call.trace) : call.trace[j] = EvStart("Adding network to topo")
    /\ \A j \in 1..Len(call.trace) : call.trace[j].err = NoErr

\* The addDevice commands of a call are those of devices 0, 1, ... of its
\* network, never more than its NumDevices, and all of them once its topology
\* step succeeded.
AddsDevicesInOrder(call) ==
    call.op = "AddNetwork" =>
      LET added == AddedDevices(call)
      IN /\ Len(added) <= call.locals.num
         /\ \A j \in 1..Len(added) :
               added[j].arg = StratumCommand(call.locals.name, j - 1)
         /\ TopoStepSucceeded(call) => Len(added) = call.locals.num

\* C19: for every NumDevices N and network name, addNetworkToTopo with no
\* failing addDevice issues exactly N addDevice commands, of type Stratum, for
\* the devices <network>-s0 .. <network>-s(N-1) in this order on the ports
\* 50001 .. 50001+N-1; each AddNetwork call counts its ports from 50001,
\* after earlier calls and while another call is in flight.
C19_AddNetworkDevices ==
    /\ AddsDevicesInOrder(ThisCall)
    /\ AddsDevicesInOrder(parked)

C19_Witness ==
    /\ TopoStepSucceeded(ThisCall)
    /\ locals.num = 2
    /\ AddedDevices(ThisCall)[2].arg =
         "onos topo add device n1-s1 --type Stratum --address n1-s1:50002 --version 1.0.0 --plain --timeout 15s"
    /\ parked.op = "AddNetwork"
    /\ parked.pc = "addNetworkToTopo"
    /\ parked.locals.name = "n2"
    /\ parked.locals.i = 1
    /\ status.err # NoErr

\* The removeDevice commands a RemoveNetwork call issued, in order.
RemovedDevices == SelectSeq(trace, LAMBDA e : e.ev = "removeDevice")

\* The config map listed before the teardown reports numdevices = m.
ListedNumDevices(m) ==
    /\ Len(locals.cms.items) > 0
    /\ locals.cms.items[1].kind = "mapping"
    /\ locals.cms.items[1].numdevices = [type |-> "int", val |-> m]

\* The teardown step of the RemoveNetwork call ended with err.
TeardownEnded(err) ==
    \E j \in 1..Len(trace) : trace[j] = EvCall("teardownNetwork", err, NoErr)

\* C20 as stated: a RemoveNetwork whose config map reports numdevices = M
\* has issued exactly M removeDevice commands when it returns.
C20_RemovesAllDevices ==
    \A m \in 0..MaxDevices :
      (HasReturned("RemoveNetwork") /\ ListedNumDevices(m)) =>
        Len(RemovedDevices) = m

\* C20, amended: a RemoveNetwork whose config map reports numdevices = M
\* issues removeDevice for <name>-s0, <name>-s1, ... in this order and never
\* more than M of them; when none of them fails it issues exactly M before it
\* returns, after a teardown that succeeded as after one that failed; a
\* failing removeDevice is the last one issued.
C20_RemovesDevicesUntilFailure ==
    \A m \in 0..MaxDevices :
      (op = "RemoveNetwork" /\ ListedNumDevices(m)) =>
        LET removed == RemovedDevices
        IN /\ Len(removed) <= m
           /\ \A j \in 1..Len(removed) :
                 /\ removed[j].arg =
                      "onos topo remove device " \o locals.name \o "-s" \o Itoa(j - 1)
                 /\ removed[j].err # NoErr => j = Len(removed)
           /\ ( /\ HasReturned("RemoveNetwork")
                /\ \A j \in 1..Len(removed) : removed[j].err = NoErr )
                 => /\ Len(removed) = m
                    /\ TeardownEnded(NoErr) \/ TeardownEnded(ErrOther)

C20_Witness ==
    /\ HasReturned("RemoveNetwork")
    /\ ListedNumDevices(2)
    /\ TeardownEnded(ErrOther)
    /\ locals.name = "n2"
    /\ Len(RemovedDevices) = 2
    /\ RemovedDevices[2] = Ev("removeDevice", "onos topo remove device n2-s1", NoErr, NoErr)

(***************************************************************************)
(* GetResources.                                                           *)
(***************************************************************************)
\* The pods of the call's namespace that carry the label resource=<name>.
Labelled == SelectSeq(locals.pods, LAMBDA p : p.resource = locals.name)

\* A pod of the namespace has exactly the name asked for.
ExactPod == \E j \in 1..Len(locals.pods) : locals.pods[j].name = locals.name

\* C21: GetResources(name) returns [name] when the get of the pod named name
\* succeeds; when the get answers not-found it returns the names of the pods
\* labelled resource=<name> in list order, or the error "unknown test
\* resource <name>" when there are none; any other error of the get or of
\* the list is returned as it is, and after such a get error no list is made.
C21_GetResources ==
    HasReturned("GetResources") =>
      LET get == trace[1]
          listed == Len(trace) = 2
      IN /\ get.arg = "Pods.Get"
         /\ get.err = NoErr =>
               /\ ExactPod
               /\ ret.resources = <<locals.name>> /\ ret.err = NoErr /\ ~listed
         /\ get.err = ErrOther =>
               ret.resources = <<>> /\ ret.err = ErrOther /\ ~listed
         /\ get.err = ErrNotFound =>
               /\ ~ExactPod
               /\ listed
               /\ trace[2].arg = "Pods.List"
               /\ trace[2].err # NoErr =>
                     ret.resources = <<>> /\ ret.err = trace[2].err
               /\ trace[2].err = NoErr =>
                     IF Labelled = <<>>
                     THEN /\ ret.resources = <<>>
                          /\ ret.err = "unknown test resource " \o locals.name
                     ELSE /\ Len(ret.resources) = Len(Labelled)
                          /\ \A j \in 1..Len(Labelled) :
                                ret.resources[j] = Labelled[j].name
                          /\ ret.err = NoErr

C21_Witness ==
    /\ HasReturned("GetResources")
    /\ locals.name = "r1"
    /\ trace[1].err = ErrNotFound
    /\ ret.resources = <<"p2", "p1">>
    /\ ret.err = NoErr

(***************************************************************************)
(* imageName.                                                              *)
(***************************************************************************)
\* C22: imageName(image, tag) is image ":" tag on a controller without a
\* registry and registry "/" image ":" tag on one with a registry.
C22_ImageName ==
    HasReturned("imageName") =>
      /\ locals.registry = "" =>
            ret.message = locals.image \o ":" \o locals.tag
      /\ locals.registry # "" =>
            ret.message = locals.registry \o "/" \o locals.image \o ":" \o locals.tag

C22_WitnessRegistry ==
    /\ HasReturned("imageName")
    /\ locals.registry = "reg.local:5000"
    /\ ret.message = "reg.local:5000/onosproject/onos-topo:debug"

(***************************************************************************)
(* Two clusters.                                                           *)
(***************************************************************************)
\* The object is one of the two kinds that have no namespace, named after
\* the cluster ID of the controller that created it.
RbacOfOwner(o) ==
    /\ o.namespace = ClusterScope
    /\ o.kind \in {"ClusterRole", "ClusterRoleBinding"}
    /\ o.name = o.owner

\* The objects a request of the controller reached, or a create of the
\* controller found existing, are the controller's own and where the request
\* was for.
SeesOwnOnly ==
    \A o \in locals.seen : o.owner = locals.clusterID /\ o.namespace = locals.namespace

\* C23 as stated: every object a controller created is in the namespace
\* named by its cluster ID, every create, get, list, delete, log, exec and
\* port forward of a controller is for that namespace, and a request reaches
\* no object of the other controller.
C23_AllInOwnPartition ==
    op \in {"request", "PortForward"} =>
      /\ locals.namespace = locals.clusterID
      /\ \A o \in objects : o.namespace = o.owner
      /\ SeesOwnOnly

\* C23, amended: every object a controller created is in the namespace named
\* by its cluster ID, except its ClusterRole and ClusterRoleBinding, which
\* have no namespace and carry the cluster ID as their name; every create,
\* get, list, delete, log, exec and port forward of a controller is for the
\* controller's own namespace, except the creates of those two objects; a
\* request reaches no object of the other controller, and no create of one
\* controller finds an object of the other existing.
C23_OwnPartitionButRbac ==
    op \in {"request", "PortForward"} =>
      /\ \A o \in objects : o.namespace = o.owner \/ RbacOfOwner(o)
      /\ locals.namespace = locals.clusterID
           \/ ( /\ locals.namespace = ClusterScope
                /\ trace[1].ev = "create"
                /\ trace[1].arg \in {"createClusterRole", "createClusterRoleBinding"} )
      /\ SeesOwnOnly
      /\ trace[1].api = ErrAlreadyExists =>
           \E o \in locals.seen : o.owner = locals.clusterID

\* With both clusters set up, the second controller has forwarded a port to
\* a pod of its own.
C23_Witness ==
    /\ op = "PortForward"
    /\ Cardinality({o \in objects : o.owner = "c1"}) = Len(CreateCalls)
    /\ Cardinality({o \in objects : o.owner = "c2"}) = Len(CreateCalls)
    /\ locals.clusterID = "c2"
    /\ locals.namespace = "c2"
    /\ locals.seen # {}
    /\ trace[Len(trace)].ev = "portforward"

\* With both clusters set up, the first controller has run Setup again: its
\* ClusterRole was found existing and passed over, and Setup returned at the
\* ClusterRoleBinding, found existing too.
C23_WitnessSetupAgain ==
    /\ op = "request"
    /\ pc = "idle"
    /\ Cardinality(objects) = 2 * Len(CreateCalls)
    /\ locals.clusterID = "c1"
    /\ trace[1].arg = "createClusterRoleBinding"
    /\ trace[1].err = ErrAlreadyExists
    /\ locals.seen # {}

\* With both clusters set up, the second controller has run a command in a
\* pod, with two pods of its own within reach.
C23_WitnessExec ==
    /\ op = "request"
    /\ Cardinality(objects) = 2 * Len(CreateCalls)
    /\ locals.clusterID = "c2"
    /\ trace[1].ev = "exec"
    /\ Cardinality(locals.seen) = 2

(***************************************************************************)
(* Setup leaves what it created.                                           *)
(***************************************************************************)
\* The object each create function of Setup is for.
ObjectCreatedBy ==
    [ createClusterRole |-> "ClusterRole",
      createClusterRoleBinding |-> "ClusterRoleBinding",
      createServiceAccount |-> "ServiceAccount",
      createOnosTopoConfigMap |-> "ConfigMap/onos-topo",
      createOnosTopoService |-> "Service/onos-topo",
      createOnosTopoDeployment |-> "Deployment/onos-topo",
      createOnosTopoProxyConfigMap |-> "ConfigMap/onos-topo-envoy",
      createOnosTopoProxyDeployment |-> "Deployment/onos-topo-envoy",
      createOnosTopoProxyService |-> "Service/onos-topo-envoy" ]

\* The objects whose create function returned nil in this Setup.
CreatedSoFar ==
    {ObjectCreatedBy[trace[j].arg] :
        j \in {k \in 1..Len(trace) : /\ IsCall(trace[k])
                                      /\ trace[k].err = NoErr
                                      /\ trace[k].arg \in DOMAIN ObjectCreatedBy}}

\* C24: Setup rolls nothing back.  It makes no delete, and every object a
\* create of this Setup made is still there at each later point of the
\* Setup, in particular when Setup returns the failure of step K or of a
\* sub-step.
C24_SetupKeepsCreatedObjects ==
    op = "Setup" =>
      /\ CreatedSoFar \subseteq objects
      /\ \A j \in 1..Len(trace) : trace[j].ev \in {"Start", "Succeed", "Fail", "call"}

C24_Witness ==
    /\ HasReturned("Setup")
    /\ ret.status.failed
    /\ trace[Len(trace) - 1] = EvCall("createOnosTopoProxyDeployment", ErrOther, ErrOther)
    /\ Cardinality(CreatedSoFar) = 7
    /\ CreatedSoFar \subseteq objects

(***************************************************************************)
(* A failing topology command in a device loop.                            *)
(***************************************************************************)
\* The commands of the given kind the operation issued: positions in trace.
Commands(kind) == {j \in 1..Len(trace) : trace[j].ev = kind}

\* A failed command of the given kind is the last command of the operation:
\* the next event is the Fail of the step and the operation has returned.
FailedCommandIsLast(kind) ==
    \A j \in Commands(kind) :
      trace[j].err # NoErr =>
        /\ j + 1 = Len(trace)
        /\ trace[j + 1] = EvFail(trace[j].err)
        /\ pc = "idle"
        /\ ret.kind = "returned"

\* C25: a failing addDevice in addNetworkToTopo, or removeDevice in
\* removeNetworkFromConfig, ends the loop: no command for a later index is
\* issued, the operation returns the result of c.status.Fail for that error,
\* and no command undoes the devices already added or removed.
C25_DeviceLoopAborts ==
    /\ op = "AddNetwork" =>
          /\ FailedCommandIsLast("addDevice")
          /\ Commands("removeDevice") = {}
    /\ op = "RemoveNetwork" =>
          /\ FailedCommandIsLast("removeDevice")
          /\ Commands("addDevice") = {}

C25_WitnessAdd ==
    /\ HasReturned("AddNetwork")
    /\ locals.num = 2
    /\ Cardinality(Commands("addDevice")) = 2
    /\ \E j \in Commands("addDevice") :
         /\ trace[j].err = ErrOther
         /\ trace[j - 1].ev = "addDevice"
         /\ trace[j - 1].err = NoErr

(***************************************************************************)
(* The status writer under overlapping calls.                              *)
(***************************************************************************)
\* C26: the calls of one controller share c.status and nothing orders them.
\* A call that did not overlap with another (it began while no other call
\* was in flight and ran to its present point without the other caller
\* running) finds as the step last started on the writer the step it
\* started itself, so each Succeed or Fail it issued was applied to its own
\* step.
C26_SerializedCallsOwnTheirSteps ==
    (op = "AddNetwork" /\ ~locals.interleaved) =>
      /\ pc # "idle" => locals.ownsStep
      /\ ~locals.misapplied

\* Two AddNetwork calls overlap, and the Succeed or Fail the running one
\* issued last was applied to the step the other had started.
C26_WitnessOverlap ==
    /\ op = "AddNetwork"
    /\ parked.op = "AddNetwork"
    /\ parked.pc = "addNetworkToTopo"
    /\ locals.interleaved
    /\ locals.misapplied
    /\ pc = "idle"
    /\ trace[Len(trace)] = EvSucceed

\* A call that overlapped with no other has returned after a Succeed.
C26_WitnessSerialized ==
    /\ op = "AddNetwork"
    /\ ~locals.interleaved
    /\ parked.op = "AddNetwork"
    /\ parked.pc = "idle"
    /\ pc = "idle"
    /\ trace[Len(trace)] = EvSucceed

(***************************************************************************)
(* Steps and their outcomes.                                               *)
(***************************************************************************)
\* The calls an operation made on the status writer, in order.
StatusCalls == SelectSeq(trace, LAMBDA e : e.ev \in {"Start", "Succeed", "Fail"})

\* C27: in a lifecycle operation every Start is followed, before the next
\* Start and before the operation returns, by exactly one Succeed or Fail:
\* among the operation's calls on the status writer each Start is directly
\* followed by an outcome (or is the last call of an operation that has not
\* returned) and each outcome directly follows a Start.
C27_EachStepClosedOnce ==
    op \in {"AddSimulator", "AddNetwork", "AddApp",
            "RemoveSimulator", "RemoveNetwork", "RemoveApp", "DownloadLogs"} =>
      LET s == StatusCalls
      IN \A j \in 1..Len(s) :
           /\ s[j].ev = "Start" =>
                 IF j < Len(s) THEN s[j + 1].ev \in {"Succeed", "Fail"}
                 ELSE pc # "idle"
           /\ s[j].ev \in {"Succeed", "Fail"} => (j > 1 /\ s[j - 1].ev = "Start")

\* The command has made the call.
InCalls(call) == \E j \in DOMAIN cli.calls : cli.calls[j] = call

\* C28: the create-cluster command stores the cluster ID as the default
\* cluster before Setup begins, so that it is stored while Setup runs and
\* after Setup failed; it prints the cluster ID, and nothing else, only when
\* Setup returned success; with an invalid image pull policy it exits with an
\* error having obtained no controller, created no cluster controller, stored
\* no default cluster and started no Setup.
C28_CreateCommand ==
    /\ (op = "Setup" \/ InCalls("Setup")) =>
          /\ cli.clusterID # NoCluster
          /\ cli.defaultCluster = cli.clusterID
    /\ cli.printed # <<>> =>
          /\ cli.printed = <<cli.clusterID>>
          /\ InCalls("Setup")
          /\ ret.kind = "returned" /\ ~ret.status.failed
    /\ (InCalls("Setup") /\ ret.status.failed) =>
          /\ cli.printed = <<>>
          /\ cli.pc = "exited" /\ cli.exit # 0
    /\ (cli.pc # "start" /\ cli.policy \notin PullPolicies) =>
          /\ cli.pc = "exited" /\ cli.exit # 0
          /\ cli.calls = <<>>
          /\ cli.defaultCluster = NoCluster
          /\ op = "none" /\ objects = {}

\* The command exited after a Setup that failed, the default cluster stored.
C28_WitnessSetupFailed ==
    /\ cli.pc = "exited"
    /\ InCalls("Setup")
    /\ ret.status.failed
    /\ cli.defaultCluster = cli.clusterID
    /\ cli.printed = <<>>

\* The command ended after a Setup that succeeded, the cluster ID printed.
C28_WitnessPrinted == cli.pc = "done" /\ cli.printed = <<cli.clusterID>>

\* The command exited on an invalid pull policy.
C28_WitnessInvalidPolicy == cli.pc = "exited" /\ cli.policy \notin PullPolicies

\* The listens of the call in progress or last made.
Probed(port, listened) ==
    \E j \in DOMAIN locals.probes :
        locals.probes[j] = [port |-> port, listened |-> listened]

\* The ports of a sequence.
PortsOf(ports) == {ports[j] : j \in DOMAIN ports}

\* C29: GetFreePorts(count) probes the ports DebugPort, DebugPort + 1, ... in
\* turn; when it returns without error for count > 0 it returns exactly count
\* ports, strictly increasing, each >= DebugPort and each one a port on which
\* the listen succeeded, and every port from DebugPort to the last returned
\* one that is not returned is a port on which the listen failed; for
\* count <= 0 it returns no port and has probed none.
C29_GetFreePorts ==
    op = "GetFreePorts" =>
      /\ \A j \in DOMAIN locals.probes : locals.probes[j].port = DebugPort + j - 1
      /\ (pc = "idle" /\ ret.err = NoErr /\ locals.count > 0) =>
           /\ Len(ret.ports) = locals.count
           /\ \A j \in 1..(Len(ret.ports) - 1) : ret.ports[j] < ret.ports[j + 1]
           /\ \A p \in PortsOf(ret.ports) : p >= DebugPort /\ Probed(p, TRUE)
           /\ \A q \in DebugPort..ret.ports[Len(ret.ports)] :
                q \notin PortsOf(ret.ports) => Probed(q, FALSE)
      /\ (pc = "idle" /\ locals.count <= 0) =>
           /\ ret.err = NoErr
           /\ ret.ports = <<>>
           /\ locals.probes = <<>>

\* Two ports were returned with a port skipped before and between them.
C29_WitnessSkipped ==
    /\ op = "GetFreePorts" /\ pc = "idle" /\ ret.kind = "returned"
    /\ ret.err = NoErr
    /\ locals.count = 2
    /\ ret.ports = <<DebugPort + 1, DebugPort + 3>>

\* A call with a count below one returned.
C29_WitnessNoPorts ==
    op = "GetFreePorts" /\ pc = "idle" /\ locals.count <= 0 /\ ret.ports = <<>>

====
